---- MODULE Spec2Model ----
(***************************************************************************)
(* State-machine model of src/blocks/sound.rs (i3status-rust sound block): *)
(* the PulseAudio client singleton with its request worker and its         *)
(* subscription worker, the process-wide default sink / sink cache /       *)
(* listener registry, the PulseAudio and ALSA device adapters and the      *)
(* Sound block that drives them.                                           *)
(***************************************************************************)
EXTENDS Integers, Sequences, FiniteSets, TLC

\* ------------------------------------------------------------------------
\* Bounds of the model (not program constants)
\* ------------------------------------------------------------------------
MaxQueue == 2
\* commands waiting on the request channel at one time
MaxEvents == 1
\* subscription events waiting on the subscription connection
MaxTasks == 1
\* notifications waiting on one listener's endpoint
MaxInputs == 1
\* inputs from outside: clicks, changes made to the sound server by other
\* programs, receivers dropped

\* ------------------------------------------------------------------------
\* Program constants
\* ------------------------------------------------------------------------
VOLUME_NORM == 65536
VOLUME_MAX == 2147483647
I32_MAX == 2147483647
FLUSH_ITERATIONS == 10
BLOCKING_ITERATIONS == 2
MAX_STEP_WIDTH == 50
MANTISSA_BITS == 24

None == "None"

\* Option<ChannelVolumes>::None of a device (a volume vector has a channel)
NoVolume == <<>>

\* no request, where a request may stand
NoRequest == <<>>

\* no device, where a device may stand
NoDevice == [kind |-> "none"]
DEFAULT_SINK_PLACEHOLDER == "@DEFAULT_SINK@"

Blocks == {"b1", "b2"}
SinkNames == {"sink1", "sink2"}

\* the sound server's index of a sink
SinkIndex(n) == IF n = "sink1" THEN 0 ELSE 1
SinkAt(i) == IF i = 0 THEN "sink1" ELSE IF i = 1 THEN "sink2" ELSE None

\* volume vectors the sound server may hold (two channels, native units)
ServerVolumes ==
    { <<32768, 32768>>, <<0, 65536>> }

Max2(a, b) == IF a > b THEN a ELSE b
Min2(a, b) == IF a < b THEN a ELSE b

\* ------------------------------------------------------------------------
\* Arithmetic of ChannelVolumes and of the f32 conversions
\* ------------------------------------------------------------------------

\* number of bits of a non-negative integer
RECURSIVE BitLen(_)
BitLen(n) == IF n = 0 THEN 0 ELSE 1 + BitLen(n \div 2)

\* n / 2^k rounded to the nearest integer, ties to even (IEEE rounding)
RoundShift(n, k) ==
    IF k = 0 THEN n
    ELSE LET d == 2 ^ k
             q == n \div d
             r == n % d
             h == d \div 2
         IN  IF r > h \/ (r = h /\ q % 2 = 1) THEN q + 1 ELSE q

\* `n as f32` for 0 <= n < 2^31: the pair <<m, e>> stands for m * 2^e
ToF32(n) ==
    LET k == Max2(0, BitLen(n) - MANTISSA_BITS)
    IN  <<RoundShift(n, k), k>>

\* f32 division by VOLUME_NORM (a power of two: exact)
F32DivNorm(f) == <<f[1], f[2] - (BitLen(VOLUME_NORM) - 1)>>

\* f32 multiplication by 100.0, rounded to the f32 mantissa
F32Mul100(f) ==
    LET p == f[1] * 100
        k == Max2(0, BitLen(p) - MANTISSA_BITS)
    IN  <<RoundShift(p, k), f[2] + k>>

\* f32::round (half away from zero) followed by `as u32`, for f >= 0
F32RoundToU32(f) ==
    IF f[2] >= 0 THEN f[1] * (2 ^ f[2])
    ELSE LET d == 2 ^ (0 - f[2])
             q == f[1] \div d
             r == f[1] % d
         IN  IF 2 * r >= d THEN q + 1 ELSE q

RECURSIVE SumQuot(_, _)
SumQuot(v, n) == IF v = <<>> THEN 0 ELSE (Head(v) \div n) + SumQuot(Tail(v), n)
RECURSIVE SumRem(_, _)
SumRem(v, n) == IF v = <<>> THEN 0 ELSE (Head(v) % n) + SumRem(Tail(v), n)

\* ChannelVolumes::avg: the 64-bit sum of the channels divided by their
\* number (computed here without leaving the 32-bit range)
avg(v) == SumQuot(v, Len(v)) + (SumRem(v, Len(v)) \div Len(v))

\* PulseAudioSoundDevice::volume(): the percentage stored in volume_avg
volume_avg_of(v) == F32RoundToU32(F32Mul100(F32DivNorm(ToF32(avg(v)))))

\* set_volume: `(step as f32 * VOLUME_NORM.0 as f32 / 100.0).round() as i32`
\* (exact for the steps a block can pass, |step| <= 50)
StepToNative(step) ==
    LET a == (IF step < 0 THEN 0 - step ELSE step) * VOLUME_NORM
        q == a \div 100
        r == a % 100
        mag == IF 2 * r >= 100 THEN q + 1 ELSE q
    IN  IF step < 0 THEN 0 - mag ELSE mag

\* `vol.0 as i32 + step` overflows the i32 range
AddOverflows(vol, step) == step > 0 /\ vol > I32_MAX - step

\* `vol.0 as i32 + step` with two's-complement wrap-around (release build)
WrappingAdd(vol, step) ==
    IF AddOverflows(vol, step)
    THEN (vol - I32_MAX - 1) + (step - I32_MAX - 1)
    ELSE vol + step

\* set_volume, one channel: min(max(0, vol as i32 + step) as u32, VOLUME_MAX)
StepChannel(vol, step) ==
    Min2(Max2(0, WrappingAdd(vol, step)), VOLUME_MAX)

StepVolumes(v, step) == [c \in 1..Len(v) |-> StepChannel(v[c], step)]

\* ------------------------------------------------------------------------
\* State
\* ------------------------------------------------------------------------
VARIABLES
    cfg,                        \* SoundConfig of each block
    mixer,                      \* the ALSA mixer control read and set through amixer
    server,                     \* the sound server: default sink, volume and mute of each sink
    PULSEAUDIO_CLIENT,          \* lazy static: "uninit", "initializing", "ok", "err"
    PULSEAUDIO_EVENT_LISTENER,  \* lazy static: the registered block ids
    PULSEAUDIO_DEFAULT_SINK,    \* lazy static: the default sink name
    PULSEAUDIO_SINKS,           \* lazy static: sink name -> PulseAudioSinkInfo
    listener_poisoned,          \* the PULSEAUDIO_EVENT_LISTENER mutex is poisoned
    new_calls,                  \* times PulseAudioClient::new has been entered
    threads_spawned,            \* worker threads spawned by PulseAudioClient::new
    result_chan,                \* send_result -> recv_result
    queue,                      \* send_req -> recv_req
    context,                    \* PulseState of each worker's connection
    reqw,                       \* request worker: [pc, n, req]
    subw,                       \* subscription worker: its pc
    pending,                    \* queries issued on the request connection, callback not yet run
    events,                     \* subscription events not yet delivered
    main,                       \* the block thread: [pc, b]
    block,                      \* Sound of each block: [st, step_width]
    device,                     \* SoundDevice of each block, or None
    tasks,                      \* Tasks waiting on each block's tx_update_request
    rx_alive,                   \* the receiver of each block's tx_update_request exists
    inputs,                     \* clicks, server changes and receiver drops so far
    last,                       \* result of the block thread's last call: [op, b, res]
    lock,                       \* the thread that holds each of the three mutexes, or None
    thr                         \* per thread: the operation in progress and its remaining lock steps

vars == << cfg, mixer, server, PULSEAUDIO_CLIENT, PULSEAUDIO_EVENT_LISTENER,
           PULSEAUDIO_DEFAULT_SINK, PULSEAUDIO_SINKS, listener_poisoned,
           new_calls, threads_spawned, result_chan, queue,  context, reqw, subw, pending, events, 
           main, block, device, tasks, rx_alive, inputs, last, lock, thr >>

Workers == {"req", "sub"}

\* the mutexes of the lazy statics
DEFAULT_SINK_LOCK == "PULSEAUDIO_DEFAULT_SINK"
SINKS_LOCK == "PULSEAUDIO_SINKS"
LISTENER_LOCK == "PULSEAUDIO_EVENT_LISTENER"
Locks == {DEFAULT_SINK_LOCK, SINKS_LOCK, LISTENER_LOCK}

\* the threads that run code of the PulseAudio backend: the thread calling
\* the devices, the request worker (info callbacks) and the subscription
\* worker (subscribe_callback)
LockThreads == {"main", "req", "sub"}

\* no mutex is held and no thread is inside an operation
LocksFree == lock = [l \in Locks |-> None]
ThreadsIdle == thr = [t \in LockThreads |-> [op |-> None, steps |-> <<>>]]

\* ------------------------------------------------------------------------
\* The sound server (external): answers to queries and effects of commands
\* ------------------------------------------------------------------------

\* the sink a name given to the server stands for, or None
ResolveSink(name) ==
    IF name = DEFAULT_SINK_PLACEHOLDER THEN server.default_sink_name
    ELSE IF name \in SinkNames THEN name
    ELSE None

\* the ListResult item the server returns for sink n
SinkItem(n) ==
    [kind |-> "Item", name |-> n, volume |-> server.sink[n].volume,
     mute |-> server.sink[n].mute]

\* what the callback of a query receives when it is dispatched
Reply(req) ==
    CASE req[1] = "GetDefaultDevice" ->
            [cb |-> "server_info", default_sink_name |-> server.default_sink_name]
      [] req[1] = "GetSinkInfoByIndex" ->
            [cb |-> "sink_info",
             result |-> IF SinkAt(req[2]) = None THEN [kind |-> "Error"]
                        ELSE SinkItem(SinkAt(req[2]))]
      [] req[1] = "GetSinkInfoByName" ->
            [cb |-> "sink_info",
             result |-> IF ResolveSink(req[2]) = None THEN [kind |-> "Error"]
                        ELSE SinkItem(ResolveSink(req[2]))]
      [] req[1] = "End" ->
            [cb |-> "sink_info", result |-> [kind |-> "End"]]

\* the server after a command; queries leave it as it is
ServerAfter(req) ==
    LET n == ResolveSink(req[2])
    IN  CASE req[1] = "SetSinkVolumeByName" /\ n # None ->
                [server EXCEPT !.sink[n].volume = req[3]]
          [] req[1] = "SetSinkMuteByName" /\ n # None ->
                [server EXCEPT !.sink[n].mute = req[3]]
          [] OTHER -> server

\* the subscription events a change of the server from s to t raises
ChangeEvents(s, t) ==
    IF s = t THEN <<>>
    ELSE IF s.default_sink_name # t.default_sink_name
         THEN << [facility |-> "Server", index |-> 0] >>
         ELSE LET n == CHOOSE x \in SinkNames : s.sink[x] # t.sink[x]
              IN  << [facility |-> "Sink", index |-> SinkIndex(n)] >>

\* events are delivered only to a subscribed connection
Raise(s, t) == IF subw = "run" THEN events \o ChangeEvents(s, t) ELSE events

\* ------------------------------------------------------------------------
\* Callbacks of the PulseAudio client (run by a worker inside iterate)
\* ------------------------------------------------------------------------

\* the orders in which a HashMap holding the keys S may be iterated
Orders(S) ==
    { o \in [1..Cardinality(S) -> S] : \A i, j \in 1..Cardinality(S) : o[i] = o[j] => i = j }

\* one of these orders
OneOrder(S) == CHOOSE o \in Orders(S) : TRUE

\* the loop of send_update_event over the listeners in `order`: every
\* `send(..).unwrap()` either enqueues a Task or, on a disconnected
\* endpoint, panics and ends the loop
RECURSIVE SendTasks(_, _)
SendTasks(order, t) ==
    IF order = <<>> THEN [tasks |-> t, panicked |-> FALSE]
    ELSE IF rx_alive[Head(order)]
         THEN SendTasks(Tail(order), [t EXCEPT ![Head(order)] = @ + 1])
         ELSE [tasks |-> t, panicked |-> TRUE]

\* PulseAudioClient::send_update_event; `lock().unwrap()` panics on a
\* poisoned mutex, and a panic inside the loop poisons it
send_update_event(order) ==
    IF listener_poisoned
    THEN [tasks |-> tasks, panicked |-> TRUE, poisoned |-> TRUE]
    ELSE LET r == SendTasks(order, tasks)
         IN  [tasks |-> r.tasks, panicked |-> r.panicked, poisoned |-> r.panicked]

\* a callback that touches nothing
NoEffect ==
    [default |-> PULSEAUDIO_DEFAULT_SINK, sinks |-> PULSEAUDIO_SINKS,
     tasks |-> tasks, panicked |-> FALSE, poisoned |-> listener_poisoned]

\* PulseAudioClient::server_info_callback
server_info_callback(server_info, order) ==
    IF server_info.default_sink_name = None THEN NoEffect
    ELSE LET u == send_update_event(order)
         IN  [default |-> server_info.default_sink_name, sinks |-> PULSEAUDIO_SINKS,
              tasks |-> u.tasks, panicked |-> u.panicked, poisoned |-> u.poisoned]

\* HashMap::insert
Insert(map, key, value) ==
    [k \in DOMAIN map \cup {key} |-> IF k = key THEN value ELSE map[k]]

\* variant of sink_info_callback: the broadcast comes before the insert, so
\* that a panic of the broadcast leaves the cache as it was
SinkInfoCallbackBroadcastFirst(result, order) ==
    IF result.kind \in {"End", "Error"} THEN NoEffect
    ELSE IF result.name = None THEN NoEffect
    ELSE LET info == [volume |-> result.volume, mute |-> result.mute]
             u == send_update_event(order)
         IN  [default |-> PULSEAUDIO_DEFAULT_SINK,
              sinks |-> IF u.panicked THEN PULSEAUDIO_SINKS
                        ELSE Insert(PULSEAUDIO_SINKS, result.name, info),
              tasks |-> u.tasks, panicked |-> u.panicked, poisoned |-> u.poisoned]

\* PulseAudioClient::sink_info_callback
sink_info_callback(result, order) ==
    IF result.kind \in {"End", "Error"} THEN NoEffect
    ELSE IF result.name = None THEN NoEffect
    ELSE LET info == [volume |-> result.volume, mute |-> result.mute]
             u == send_update_event(order)
         IN  [default |-> PULSEAUDIO_DEFAULT_SINK,
              sinks |-> Insert(PULSEAUDIO_SINKS, result.name, info),
              tasks |-> u.tasks, panicked |-> u.panicked, poisoned |-> u.poisoned]

\* the callback the reply r invokes
Callback(r, order) ==
    IF r.cb = "server_info" THEN server_info_callback(r, order)
    ELSE sink_info_callback(r.result, order)

\* the queries still awaiting a callback once the head of `pending` has been
\* dispatched: a sink item is followed by the End of its list
PendingAfter(r) ==
    IF r.cb = "sink_info" /\ r.result.kind = "Item"
    THEN << <<"End">> >> \o Tail(pending)
    ELSE Tail(pending)

\* the broadcast of a callback leaves room on every listener's endpoint
RoomForTasks == \A b \in Blocks : tasks[b] < MaxTasks

\* ------------------------------------------------------------------------
\* PulseAudioClient::send
\* ------------------------------------------------------------------------

\* variant of FirstUse: a memoized failure is retried
FirstUseRetry == PULSEAUDIO_CLIENT \in {"uninit", "err"}

\* lazy_static: the first use of PULSEAUDIO_CLIENT runs PulseAudioClient::new
FirstUse == PULSEAUDIO_CLIENT = "uninit"

\* what send() does once PULSEAUDIO_CLIENT has been initialized: Err for a
\* memoized failure, a panic of `sender.send(..).unwrap()` when the request
\* worker (the owner of recv_req) is gone, Ok otherwise
send(request) ==
    IF PULSEAUDIO_CLIENT = "err" THEN "Err"
    ELSE IF reqw.pc = "dead" THEN "Panic"
    ELSE "Ok"

\* variant of Enqueued: the command overtakes those already waiting
EnqueuedFront(request) == <<request>> \o queue

\* crossbeam channel: send() appends the command to the channel
Enqueued(request) == Append(queue, request)

\* room on the request channel
RoomToSend == Len(queue) < MaxQueue

\* ------------------------------------------------------------------------
\* ALSA device (amixer)
\* ------------------------------------------------------------------------

Digit == <<"0", "1", "2", "3", "4", "5", "6", "7", "8", "9">>

\* the decimal digits of a natural number, as characters
RECURSIVE Decimal(_)
Decimal(n) ==
    IF n < 10 THEN << Digit[n + 1] >> ELSE Append(Decimal(n \div 10), Digit[(n % 10) + 1])

\* the shapes of what `amixer get` writes to its standard output: the usual
\* line, a line without a switch token, a line without a bracketed token, a
\* line whose percentage is no number, and nothing at all (amixer failed)
OutputKinds == {"full", "noswitch", "nobracket", "nonnumeric", "empty"}

\* the tokens of the last line amixer prints for the mixer control
AmixerLastLine ==
    LET head == << <<"M", "o", "n", "o", ":">>,
                   <<"P", "l", "a", "y", "b", "a", "c", "k">>,
                   Decimal(mixer.volume) >>
        percent == <<"[">> \o Decimal(mixer.volume) \o <<"%", "]">>
        decibel == <<"[", "-", "1", ".", "5", "d", "B", "]">>
        switch == IF mixer.muted THEN <<"[", "o", "f", "f", "]">> ELSE <<"[", "o", "n", "]">>
    IN  CASE mixer.out = "full" -> head \o <<percent, decibel, switch>>
          [] mixer.out = "noswitch" -> head \o <<percent, decibel>>
          [] mixer.out = "nobracket" -> head \o <<decibel>>
          [] mixer.out = "nonnumeric" -> head \o << <<"[", "n", "/", "a", "%", "]">>, switch >>

\* const FILTER
FILTER == {"[", "]", "%"}

\* str::contains("dB")
ContainsDb(tok) == \E i \in 1..(Len(tok) - 1) : tok[i] = "d" /\ tok[i + 1] = "B"

\* str::trim_matches(FILTER)
RECURSIVE TrimStart(_)
TrimStart(tok) ==
    IF tok # <<>> /\ Head(tok) \in FILTER THEN TrimStart(Tail(tok)) ELSE tok
RECURSIVE TrimEnd(_)
TrimEnd(tok) ==
    IF tok # <<>> /\ tok[Len(tok)] \in FILTER
    THEN TrimEnd(SubSeq(tok, 1, Len(tok) - 1)) ELSE tok
TrimMatches(tok) == TrimEnd(TrimStart(tok))

\* the value of a digit character, or -1
DigitValue(c) ==
    IF \E d \in 1..10 : Digit[d] = c THEN (CHOOSE d \in 1..10 : Digit[d] = c) - 1 ELSE 0 - 1

\* str::parse::<u32> (numbers of up to nine digits): the value, or -1
RECURSIVE ParseDigits(_, _)
ParseDigits(tok, acc) ==
    IF tok = <<>> THEN acc
    ELSE IF DigitValue(Head(tok)) < 0 THEN 0 - 1
    ELSE ParseDigits(Tail(tok), 10 * acc + DigitValue(Head(tok)))
ParseU32(tok) ==
    LET t == IF tok # <<>> /\ Head(tok) = "+" THEN Tail(tok) ELSE tok
    IN  IF t = <<>> \/ Len(t) > 9 THEN 0 - 1 ELSE ParseDigits(t, 0)

\* variant of Bracketed: the decibel token is kept
RECURSIVE BracketedWithDb(_)
BracketedWithDb(toks) ==
    IF toks = <<>> THEN <<>>
    ELSE IF Head(toks) # <<>> /\ Head(Head(toks)) = "["
         THEN << TrimMatches(Head(toks)) >> \o BracketedWithDb(Tail(toks))
         ELSE BracketedWithDb(Tail(toks))

\* the bracketed tokens without a decibel marker, trimmed
RECURSIVE Bracketed(_)
Bracketed(toks) ==
    IF toks = <<>> THEN <<>>
    ELSE IF Head(toks) # <<>> /\ Head(Head(toks)) = "[" /\ ~ContainsDb(Head(toks))
         THEN << TrimMatches(Head(toks)) >> \o Bracketed(Tail(toks))
         ELSE Bracketed(Tail(toks))

\* variant of AlsaGetInfo: a failure resets the device
AlsaGetInfoReset(d) ==
    IF ~mixer.runs \/ mixer.out = "empty"
    THEN [res |-> "Err", dev |-> [d EXCEPT !.volume = 0, !.muted = FALSE]]
    ELSE LET lst == Bracketed(AmixerLastLine)
         IN  IF lst = <<>> \/ ParseU32(lst[1]) < 0
             THEN [res |-> "Err", dev |-> [d EXCEPT !.volume = 0, !.muted = FALSE]]
             ELSE [res |-> "Ok",
                   dev |-> [d EXCEPT !.volume = ParseU32(lst[1]),
                                     !.muted = IF Len(lst) >= 2
                                               THEN lst[2] = <<"o", "f", "f">>
                                               ELSE FALSE]]

\* AlsaSoundDevice::get_info on device d: [res, dev]
AlsaGetInfo(d) ==
    IF ~mixer.runs \/ mixer.out = "empty" THEN [res |-> "Err", dev |-> d]
    ELSE LET lst == Bracketed(AmixerLastLine)
         IN  IF lst = <<>> \/ ParseU32(lst[1]) < 0 THEN [res |-> "Err", dev |-> d]
             ELSE [res |-> "Ok",
                   dev |-> [d EXCEPT !.volume = ParseU32(lst[1]),
                                     !.muted = IF Len(lst) >= 2
                                               THEN lst[2] = <<"o", "f", "f">>
                                               ELSE FALSE]]

\* AlsaSoundDevice::set_volume on device d: [res, dev, set]; `set` is the
\* percentage passed to `amixer set`, or -1
AlsaSetVolume(d, step) ==
    LET volume == Max2(0, d.volume + step)
    IN  IF ~mixer.runs THEN [res |-> "Err", dev |-> d, set |-> 0 - 1]
        ELSE [res |-> "Ok", dev |-> [d EXCEPT !.volume = volume], set |-> volume]

\* AlsaSoundDevice::toggle on device d: [res, dev]
AlsaToggle(d) ==
    IF ~mixer.runs THEN [res |-> "Err", dev |-> d]
    ELSE [res |-> "Ok", dev |-> [d EXCEPT !.muted = ~d.muted]]

\* the mixer control after `amixer set <percent>%` (the control's range is 0..100)
MixerAfterSet(percent) == [mixer EXCEPT !.volume = Min2(100, percent)]

\* the mixer control after `amixer set toggle`
MixerAfterToggle == [mixer EXCEPT !.muted = ~mixer.muted]

\* ------------------------------------------------------------------------
\* PulseAudio device
\* ------------------------------------------------------------------------

\* PulseAudioSoundDevice::new / with_name: the device as constructed
PulseDevice(name) ==
    [kind |-> "pulse", name |-> name, volume |-> NoVolume, volume_avg |-> 0,
     muted |-> FALSE]

\* variant of name: the configured name is ignored
NameDefaultOnly(d) == PULSEAUDIO_DEFAULT_SINK

\* PulseAudioSoundDevice::name
name(d) == IF d.name # None THEN d.name ELSE PULSEAUDIO_DEFAULT_SINK


\* variant of SetLocalVolume: the percentage is not recomputed
SetLocalVolumeStale(d, volume) == [d EXCEPT !.volume = volume]

\* PulseAudioSoundDevice::volume(&mut self, volume)
SetLocalVolume(d, volume) ==
    [d EXCEPT !.volume = volume, !.volume_avg = volume_avg_of(volume)]

\* variant of PulseGetInfo: a cache miss resets the device
PulseGetInfoReset(d) ==
    IF name(d) \notin DOMAIN PULSEAUDIO_SINKS
    THEN [res |-> "Ok", dev |-> PulseDevice(d.name)]
    ELSE LET sink_info == PULSEAUDIO_SINKS[name(d)]
         IN  [res |-> "Ok",
              dev |-> [SetLocalVolume(d, sink_info.volume) EXCEPT !.muted = sink_info.mute]]

\* PulseAudioSoundDevice::get_info on device d: [res, dev]
PulseGetInfo(d) ==
    IF name(d) \notin DOMAIN PULSEAUDIO_SINKS THEN [res |-> "Ok", dev |-> d]
    ELSE LET sink_info == PULSEAUDIO_SINKS[name(d)]
         IN  [res |-> "Ok",
              dev |-> [SetLocalVolume(d, sink_info.volume) EXCEPT !.muted = sink_info.mute]]

\* one of the additions of set_volume overflows
StepOverflows(d, step) ==
    \E c \in 1..Len(d.volume) : AddOverflows(d.volume[c], StepToNative(step))

\* variant of PulseSetVolume: an unknown volume counts as silence
PulseSetVolumeFromZero(d, step) ==
    LET old == IF d.volume = NoVolume THEN <<0, 0>> ELSE d.volume
        volume == StepVolumes(old, StepToNative(step))
    IN  [res |-> "Ok", dev |-> SetLocalVolume(d, volume),
         request |-> <<"SetSinkVolumeByName", name(d), volume>>]

\* PulseAudioSoundDevice::set_volume on device d, up to its send():
\* [res, dev, request]
PulseSetVolume(d, step) ==
    IF d.volume = NoVolume
    THEN [res |-> "Err: volume unknown", dev |-> d, request |-> NoRequest]
    ELSE LET volume == StepVolumes(d.volume, StepToNative(step))
         IN  [res |-> "Ok", dev |-> SetLocalVolume(d, volume),
              request |-> <<"SetSinkVolumeByName", name(d), volume>>]

\* variant of PulseToggle: the command carries the flag before the toggle
PulseToggleOldFlag(d) ==
    [res |-> "Ok", dev |-> [d EXCEPT !.muted = ~d.muted],
     request |-> <<"SetSinkMuteByName", name(d), d.muted>>]

\* PulseAudioSoundDevice::toggle on device d, up to its send(): [res, dev, request]
PulseToggle(d) ==
    [res |-> "Ok", dev |-> [d EXCEPT !.muted = ~d.muted],
     request |-> <<"SetSinkMuteByName", name(d), ~d.muted>>]

\* ------------------------------------------------------------------------
\* Initial state: the process has started, no block has been constructed
\* ------------------------------------------------------------------------

\* the SoundConfig of the blocks
Configs ==
    { [b \in Blocks |->
         [driver |-> "auto",
          name |-> IF b = "b1" THEN None ELSE "sink2",
          device |-> None,
          step_width |-> IF b = "b1" THEN 5 ELSE 60]] }

InitServer ==
    [default_sink_name |-> "sink1",
     sink |-> [n \in SinkNames |->
                 IF n = "sink1" THEN [volume |-> <<32768, 32768>>, mute |-> FALSE]
                 ELSE [volume |-> <<VOLUME_MAX, 16384>>, mute |-> TRUE]]]

Idle == [pc |-> "idle", b |-> None]

InitCommon ==
    /\ server = InitServer
    /\ PULSEAUDIO_CLIENT = "uninit"
    /\ PULSEAUDIO_EVENT_LISTENER = {}
    /\ PULSEAUDIO_DEFAULT_SINK = DEFAULT_SINK_PLACEHOLDER
    /\ PULSEAUDIO_SINKS = <<>>
    /\ listener_poisoned = FALSE
    /\ new_calls = 0
    /\ threads_spawned = 0
    /\ result_chan = <<>>
    /\ queue = <<>>
    /\ context = [w \in Workers |-> "Unconnected"]
    /\ reqw = [pc |-> "unspawned", n |-> 0, req |-> NoRequest]
    /\ subw = "unspawned"
    /\ pending = <<>>
    /\ events = <<>>
    /\ main = Idle
    /\ block = [b \in Blocks |-> [st |-> "absent", step_width |-> 0]]
    /\ device = [b \in Blocks |-> NoDevice]
    /\ tasks = [b \in Blocks |-> 0]
    /\ rx_alive = [b \in Blocks |-> TRUE]
    /\ inputs = 0
    /\ last = [op |-> None, b |-> None, res |-> None]
    /\ LocksFree
    /\ ThreadsIdle

Init ==
    /\ cfg \in Configs
    /\ mixer = [volume |-> 40, muted |-> FALSE, runs |-> TRUE, out |-> "full"]
    /\ InitCommon

\* ------------------------------------------------------------------------
\* Sound::new and the lazy construction of PULSEAUDIO_CLIENT
\* ------------------------------------------------------------------------

\* variant of StepWidth: the configured width is used as it is
StepWidthUnclamped(w) == w

\* Sound::new: the step width of the block for a configured width w
StepWidth(w) == IF w > MAX_STEP_WIDTH THEN MAX_STEP_WIDTH ELSE w

\* variant of TriesPulseAudio: the driver setting is ignored
TriesPulseAudioAlways(driver) == TRUE

\* Sound::new: the drivers for which a PulseAudio device is attempted
TriesPulseAudio(driver) == driver \in {"auto", "pulseaudio"}

\* AlsaSoundDevice::new: the device before its first get_info
AlsaDevice(control, card) ==
    [kind |-> "alsa", name |-> control, device |-> card, volume |-> 0,
     muted |-> FALSE]

\* the first request a PulseAudio device constructor sends
FirstRequest(b) ==
    IF cfg[b].name = None THEN <<"GetDefaultDevice">>
    ELSE <<"GetSinkInfoByName", cfg[b].name>>

\* Sound::new from the fallback on: AlsaSoundDevice::new with its get_info;
\* blk is the block table with b under construction
AlsaNew(b, blk) ==
    LET r == AlsaGetInfo(AlsaDevice(
                 IF cfg[b].name = None THEN "Master" ELSE cfg[b].name,
                 IF cfg[b].device = None THEN "default" ELSE cfg[b].device))
    IN  IF r.res = "Ok"
        THEN /\ device' = [device EXCEPT ![b] = r.dev]
             /\ block' = blk
             /\ main' = [pc |-> "monitor", b |-> b]
             /\ last' = [op |-> "AlsaSoundDevice::new", b |-> b, res |-> "Ok"]
        ELSE /\ device' = device
             /\ block' = [blk EXCEPT ![b].st = "failed"]
             /\ main' = Idle
             /\ last' = [op |-> "Sound::new", b |-> b, res |-> "Err"]

\* Sound::new from the return of the constructor's first send() on; res is
\* what that send() did
FirstSendDone(b, res, blk) ==
    CASE res = "Ok" ->
            /\ queue' = Enqueued(FirstRequest(b))
            /\ block' = blk
            /\ last' = [op |-> "send", b |-> b, res |-> "Ok"]
            /\ IF cfg[b].name = None
               THEN /\ main' = [pc |-> "device_new", b |-> b]
                    /\ device' = device
               ELSE /\ main' = [pc |-> "monitor", b |-> b]
                    /\ device' = [device EXCEPT ![b] = PulseDevice(cfg[b].name)]
      [] res = "Err" ->
            /\ UNCHANGED <<queue>>
            /\ AlsaNew(b, blk)
      [] res = "Panic" ->
            /\ UNCHANGED <<queue, device>>
            /\ block' = blk
            /\ main' = [pc |-> "panicked", b |-> b]
            /\ last' = [op |-> "send", b |-> b, res |-> "Panic"]

\* Sound::new up to the return of the device constructor's first send(), or
\* up to the first thread_result() of PulseAudioClient::new when that send()
\* is the first use of PULSEAUDIO_CLIENT
SoundNew(b) ==
    /\ main.pc = "idle"
    /\ block[b].st = "absent"
    /\ b = "b2" => block["b1"].st # "absent"
    /\ LET blk == [block EXCEPT ![b] =
                      [st |-> "constructing",
                       step_width |-> StepWidth(cfg[b].step_width)]]
       IN  IF ~TriesPulseAudio(cfg[b].driver)
           THEN /\ AlsaNew(b, blk)
                /\ UNCHANGED <<PULSEAUDIO_CLIENT, new_calls, threads_spawned, context,
                               reqw, queue>>
           ELSE IF FirstUse
           THEN /\ PULSEAUDIO_CLIENT' = "initializing"
                /\ new_calls' = new_calls + 1
                /\ threads_spawned' = threads_spawned + 1
                /\ reqw' = [pc |-> "connecting", n |-> 0, req |-> NoRequest]
                /\ context' = [context EXCEPT !["req"] = "Connecting"]
                /\ main' = [pc |-> "thread_result_req", b |-> b]
                /\ block' = blk
                /\ UNCHANGED <<queue, device, last>>
           ELSE /\ send(FirstRequest(b)) = "Ok" => RoomToSend
                /\ FirstSendDone(b, send(FirstRequest(b)), blk)
                /\ UNCHANGED <<PULSEAUDIO_CLIENT, new_calls, threads_spawned, context, reqw>>
    /\ UNCHANGED <<lock, thr, cfg, mixer, server, PULSEAUDIO_EVENT_LISTENER, PULSEAUDIO_DEFAULT_SINK,
                   PULSEAUDIO_SINKS, listener_poisoned, result_chan, subw,
                   pending, events, tasks, rx_alive, inputs>>

\* PulseAudioClient::new: one thread_result(), then the spawn of the
\* subscription worker or the return of new and of the send() that ran it
ThreadResult ==
    /\ main.pc \in {"thread_result_req", "thread_result_sub"}
    /\ result_chan # <<>>
    /\ result_chan' = Tail(result_chan)
    /\ IF Head(result_chan) = "Err"
       THEN /\ PULSEAUDIO_CLIENT' = "err"
            /\ FirstSendDone(main.b, "Err", block)
            /\ UNCHANGED <<threads_spawned, subw, context>>
       ELSE IF main.pc = "thread_result_req"
       THEN /\ threads_spawned' = threads_spawned + 1
            /\ subw' = "connecting"
            /\ context' = [context EXCEPT !["sub"] = "Connecting"]
            /\ main' = [main EXCEPT !.pc = "thread_result_sub"]
            /\ UNCHANGED <<PULSEAUDIO_CLIENT, queue, block, device, last>>
       ELSE /\ PULSEAUDIO_CLIENT' = "ok"
            /\ FirstSendDone(main.b, IF reqw.pc = "dead" THEN "Panic" ELSE "Ok", block)
            /\ UNCHANGED <<threads_spawned, subw, context>>
    /\ UNCHANGED <<lock, thr, cfg, mixer, server, PULSEAUDIO_EVENT_LISTENER, PULSEAUDIO_DEFAULT_SINK,
                   PULSEAUDIO_SINKS, listener_poisoned, new_calls, reqw,
                   pending, events, tasks, rx_alive, inputs>>

\* PulseAudioSoundDevice::new: the second send(), GetSinkInfoByName(name())
DeviceNewSecondSend ==
    /\ main.pc = "device_new"
    /\ LET d == PulseDevice(None)
           request == <<"GetSinkInfoByName", name(d)>>
           res == send(request)
       IN  /\ res = "Ok" => RoomToSend
           /\ last' = [op |-> "send", b |-> main.b, res |-> res]
           /\ CASE res = "Ok" ->
                     /\ queue' = Enqueued(request)
                     /\ device' = [device EXCEPT ![main.b] = d]
                     /\ main' = [main EXCEPT !.pc = "monitor"]
                     /\ mixer' = mixer
                     /\ block' = block
                [] res = "Err" ->
                     /\ UNCHANGED <<queue, mixer>>
                     /\ AlsaNew(main.b, block)
                [] res = "Panic" ->
                     /\ UNCHANGED <<queue, device, block, mixer>>
                     /\ main' = [main EXCEPT !.pc = "panicked"]
    /\ UNCHANGED <<lock, thr, cfg, server, PULSEAUDIO_CLIENT, PULSEAUDIO_EVENT_LISTENER,
                   PULSEAUDIO_DEFAULT_SINK, PULSEAUDIO_SINKS, listener_poisoned,
                   new_calls, threads_spawned, result_chan, context, reqw,
                   subw, pending, events, tasks, rx_alive, inputs>>

\* Sound::new: `sound.device.monitor(id, tx_update_request)` and the return
Monitor ==
    /\ main.pc = "monitor"
    /\ IF device[main.b].kind = "pulse" /\ listener_poisoned
       THEN /\ main' = [main EXCEPT !.pc = "panicked"]
            /\ last' = [op |-> "monitor", b |-> main.b, res |-> "Panic"]
            /\ UNCHANGED <<PULSEAUDIO_EVENT_LISTENER, block>>
       ELSE /\ PULSEAUDIO_EVENT_LISTENER' =
                  IF device[main.b].kind = "pulse"
                  THEN PULSEAUDIO_EVENT_LISTENER \cup {main.b}
                  ELSE PULSEAUDIO_EVENT_LISTENER
            /\ block' = [block EXCEPT ![main.b].st = "ready"]
            /\ main' = Idle
            /\ last' = [op |-> "monitor", b |-> main.b, res |-> "Ok"]
    /\ UNCHANGED <<lock, thr, cfg, mixer, server, PULSEAUDIO_CLIENT, PULSEAUDIO_DEFAULT_SINK,
                   PULSEAUDIO_SINKS, listener_poisoned, new_calls, threads_spawned,
                   result_chan, queue, context, reqw, subw,
                   pending, events, device, tasks, rx_alive, inputs>>

\* ------------------------------------------------------------------------
\* Block::update and Block::click
\* ------------------------------------------------------------------------

\* SoundDevice::get_info of block b's device: [res, dev]
GetInfo(b) ==
    IF device[b].kind = "pulse"
    THEN PulseGetInfo(device[b])
    ELSE AlsaGetInfo(device[b])

\* Sound::update: the scheduler took a Task of block b and runs display()
Update(b) ==
    /\ main.pc = "idle"
    /\ \A x \in Blocks : block[x].st # "absent"
    /\ block[b].st = "ready"
    /\ rx_alive[b]
    /\ tasks[b] > 0
    /\ tasks' = [tasks EXCEPT ![b] = @ - 1]
    /\ device' = [device EXCEPT ![b] = GetInfo(b).dev]
    /\ last' = [op |-> "get_info", b |-> b, res |-> GetInfo(b).res]
    /\ UNCHANGED <<lock, thr, cfg, mixer, server, PULSEAUDIO_CLIENT, PULSEAUDIO_EVENT_LISTENER,
                   PULSEAUDIO_DEFAULT_SINK, PULSEAUDIO_SINKS, listener_poisoned,
                   new_calls, threads_spawned, result_chan, queue, 
                   context, reqw, subw, pending, events, 
                   main, block, rx_alive, inputs>>

\* the step a button asks for, or 0
ButtonStep(b, button) ==
    CASE button = "Up" -> block[b].step_width
      [] button = "Down" -> 0 - block[b].step_width
      [] OTHER -> 0

\* the device operation of a click: [op, res, dev, request, set]
ClickOperation(b, button) ==
    LET d == device[b]
    IN  CASE button = "Right" /\ d.kind = "pulse" ->
                [op |-> "toggle", set |-> 0 - 1] @@ PulseToggle(d)
          [] button = "Right" /\ d.kind = "alsa" ->
                [op |-> "toggle", request |-> NoRequest, set |-> 0 - 1] @@ AlsaToggle(d)
          [] button \in {"Up", "Down"} /\ d.kind = "pulse" ->
                [op |-> "set_volume", set |-> 0 - 1]
                    @@ PulseSetVolume(d, ButtonStep(b, button))
          [] button \in {"Up", "Down"} /\ d.kind = "alsa" ->
                [op |-> "set_volume", request |-> NoRequest]
                    @@ AlsaSetVolume(d, ButtonStep(b, button))
          [] OTHER ->
                [op |-> "none", res |-> "Ok", dev |-> d, request |-> NoRequest,
                 set |-> 0 - 1]

\* Sound::click up to the return of the device operation; checked is the
\* build's overflow-checks setting
Click(b, button, checked) ==
    /\ main.pc = "idle"
    /\ \A x \in Blocks : block[x].st # "absent"
    /\ block[b].st = "ready"
    /\ inputs < MaxInputs
    /\ inputs' = inputs + 1
    /\ checked => device[b].kind = "pulse" /\ button \in {"Up", "Down"}
    /\ LET o == ClickOperation(b, button)
           overflow == /\ o.op = "set_volume" /\ device[b].kind = "pulse"
                       /\ device[b].volume # NoVolume
                       /\ StepOverflows(device[b], ButtonStep(b, button))
           sent == IF o.request = NoRequest \/ o.res # "Ok" THEN "None"
                   ELSE send(o.request)
       IN  IF overflow /\ checked
           THEN \* `attempt to add with overflow`
                /\ main' = [pc |-> "panicked", b |-> b]
                /\ last' = [op |-> o.op, b |-> b, res |-> "Panic"]
                /\ UNCHANGED <<device, queue, mixer>>
           ELSE /\ sent = "Ok" => RoomToSend
                /\ device' = [device EXCEPT ![b] = o.dev]
                /\ queue' = IF sent = "Ok" THEN Enqueued(o.request) ELSE queue
                /\ mixer' = IF o.res # "Ok" \/ device[b].kind # "alsa" THEN mixer
                            ELSE IF o.op = "set_volume" THEN MixerAfterSet(o.set)
                            ELSE IF o.op = "toggle" THEN MixerAfterToggle
                            ELSE mixer
                /\ last' = [op |-> o.op, b |-> b,
                            res |-> IF sent \in {"Err", "Panic"} THEN sent ELSE o.res]
                /\ main' = IF sent = "Panic" THEN [pc |-> "panicked", b |-> b]
                           ELSE IF sent = "Err" \/ o.res # "Ok" THEN Idle
                           ELSE [pc |-> "display", b |-> b]
    /\ UNCHANGED <<lock, thr, cfg, server, PULSEAUDIO_CLIENT, PULSEAUDIO_EVENT_LISTENER,
                   PULSEAUDIO_DEFAULT_SINK, PULSEAUDIO_SINKS, listener_poisoned,
                   new_calls, threads_spawned, result_chan, context,
                   reqw, subw, pending, events, block, tasks, rx_alive>>

\* Sound::click: the display() that follows the device operation
ClickDisplay ==
    /\ main.pc = "display"
    /\ device' = [device EXCEPT ![main.b] = GetInfo(main.b).dev]
    /\ last' = [op |-> "get_info", b |-> main.b, res |-> GetInfo(main.b).res]
    /\ main' = Idle
    /\ UNCHANGED <<lock, thr, cfg, mixer, server, PULSEAUDIO_CLIENT, PULSEAUDIO_EVENT_LISTENER,
                   PULSEAUDIO_DEFAULT_SINK, PULSEAUDIO_SINKS, listener_poisoned,
                   new_calls, threads_spawned, result_chan, queue, 
                   context, reqw, subw, pending, events, 
                   block, tasks, rx_alive, inputs>>

\* ------------------------------------------------------------------------
\* PulseAudioConnection::new inside new_connection (both workers)
\* ------------------------------------------------------------------------

\* the request worker at the top of its loop, and after a panic
Flush == [pc |-> "flush", n |-> FLUSH_ITERATIONS, req |-> NoRequest]
Dead == [pc |-> "dead", n |-> 0, req |-> NoRequest]

\* the states a connecting context can be in after one more loop iteration
ContextNext(st) ==
    CASE st = "Connecting" -> {"Connecting", "Authorizing", "Failed", "Terminated"}
      [] st = "Authorizing" -> {"Authorizing", "SettingName", "Failed", "Terminated"}
      [] st = "SettingName" -> {"SettingName", "Ready", "Failed", "Terminated"}
      [] OTHER -> {st}

\* variant of ConnectionRound: a failed context counts as connected
ConnectionRoundLenient(it, st) ==
    IF it # "Success" THEN "Err"
    ELSE IF st \in {"Ready", "Failed"} THEN "Ok"
    ELSE IF st = "Terminated" THEN "Err"
    ELSE "Loop"

\* variant of ConnectionRound: the connection is returned one state early
ConnectionRoundEager(it, st) ==
    IF it # "Success" THEN "Err"
    ELSE IF st \in {"SettingName", "Ready"} THEN "Ok"
    ELSE IF st \in {"Failed", "Terminated"} THEN "Err"
    ELSE "Loop"

\* what one round of the loop of PulseAudioConnection::new does when
\* iterate(false) returned it and the context is then in state st:
\* "Ok" (the connection is returned), "Err" or "Loop"
ConnectionRound(it, st) ==
    IF it # "Success" THEN "Err"
    ELSE IF st = "Ready" THEN "Ok"
    ELSE IF st \in {"Failed", "Terminated"} THEN "Err"
    ELSE "Loop"

\* one round of PulseAudioConnection::new in worker w and, when it ends the
\* loop, the rest of new_connection: the result is sent and the worker goes
\* on to its loop or panics
ConnectionNew(w, it, st) ==
    /\ IF w = "req" THEN reqw.pc = "connecting" ELSE subw = "connecting"
    /\ st \in ContextNext(context[w])
    /\ LET r == ConnectionRound(it, st)
       IN  /\ context' = [context EXCEPT ![w] = IF it = "Success" THEN st ELSE @]
           /\ result_chan' = IF r = "Loop" THEN result_chan ELSE Append(result_chan, r)
           /\ reqw' = IF w # "req" \/ r = "Loop" THEN reqw
                      ELSE IF r = "Ok" THEN Flush
                      ELSE Dead
           /\ subw' = IF w # "sub" \/ r = "Loop" THEN subw
                      ELSE IF r = "Ok" THEN "run"
                      ELSE "dead"
    /\ UNCHANGED <<lock, thr, cfg, mixer, server, PULSEAUDIO_CLIENT, PULSEAUDIO_EVENT_LISTENER,
                   PULSEAUDIO_DEFAULT_SINK, PULSEAUDIO_SINKS, listener_poisoned,
                   new_calls, threads_spawned, queue, pending,
                   events, main, block, device, tasks, rx_alive, inputs,
                   last>>

\* ------------------------------------------------------------------------
\* The request worker's loop
\* ------------------------------------------------------------------------

\* the worker after an iterate() that returned, having run a callback or
\* not (ran), with the queries in `left` still awaiting their callback: the
\* next flush iteration, the recv(), the second blocking iteration or the
\* next round of the loop. The flush iterations that run no callback change
\* nothing; those that follow the last callback run pass in the same step
AfterIterate(ran, left) ==
    IF reqw.pc = "flush"
    THEN IF ran /\ reqw.n > 1 /\ left # <<>> THEN [reqw EXCEPT !.n = @ - 1]
         ELSE [pc |-> "recv", n |-> 0, req |-> NoRequest]
    ELSE IF reqw.n > 1 THEN [reqw EXCEPT !.n = @ - 1]
    ELSE Flush

\* `connection.iterate(..).unwrap()` of the request worker, in the flush
\* loop or after a command: it returns it, and on success it may have run
\* the callback of the oldest pending query (dispatch); order is the
\* iteration order of the listener map, caught tells whether a panic of the
\* callback is stopped at the callback boundary or ends the thread
ReqIterate(it, dispatch, order, caught) ==
    /\ reqw.pc \in {"flush", "iterate"}
    /\ order \in Orders(PULSEAUDIO_EVENT_LISTENER)
    /\ it # "Success" => ~dispatch
    /\ ~dispatch \/ pending = <<>> => caught /\ order = OneOrder(PULSEAUDIO_EVENT_LISTENER)
    /\ IF it # "Success"
       THEN /\ reqw' = Dead
            /\ UNCHANGED <<PULSEAUDIO_DEFAULT_SINK, PULSEAUDIO_SINKS, listener_poisoned,
                           tasks, pending>>
       ELSE IF ~dispatch \/ pending = <<>>
       THEN /\ reqw' = AfterIterate(FALSE, pending)
            /\ UNCHANGED <<PULSEAUDIO_DEFAULT_SINK, PULSEAUDIO_SINKS, listener_poisoned,
                           tasks, pending>>
       ELSE LET r == Reply(Head(pending))
                e == Callback(r, order)
            IN  /\ RoomForTasks
                /\ PULSEAUDIO_DEFAULT_SINK' = e.default
                /\ PULSEAUDIO_SINKS' = e.sinks
                /\ tasks' = e.tasks
                /\ listener_poisoned' = e.poisoned
                /\ pending' = PendingAfter(r)
                /\ reqw' = IF e.panicked /\ ~caught THEN Dead
                           ELSE AfterIterate(TRUE, PendingAfter(r))
    /\ UNCHANGED <<lock, thr, cfg, mixer, server, PULSEAUDIO_CLIENT, PULSEAUDIO_EVENT_LISTENER,
                   new_calls, threads_spawned, result_chan, queue, 
                   context, subw, events, main, block, device, rx_alive,
                   inputs, last>>

\* a command with a callback
IsQuery(req) == req[1] \in {"GetDefaultDevice", "GetSinkInfoByIndex", "GetSinkInfoByName"}

\* `recv_req.recv()` and the introspection call for the command received;
\* with every sender dropped recv() returns Err and the loop goes round
ReqRecv ==
    /\ reqw.pc = "recv"
    /\ IF queue # <<>>
       THEN LET req == Head(queue)
            IN  /\ Len(Raise(server, ServerAfter(req))) <= MaxEvents
                /\ queue' = Tail(queue)
                /\ pending' = IF IsQuery(req) THEN Append(pending, req) ELSE pending
                /\ server' = ServerAfter(req)
                /\ events' = Raise(server, ServerAfter(req))
                /\ reqw' = [pc |-> "iterate", n |-> BLOCKING_ITERATIONS, req |-> req]
       ELSE /\ PULSEAUDIO_CLIENT = "err"
            /\ reqw' = Flush
            /\ UNCHANGED <<queue, pending, server, events>>
    /\ UNCHANGED <<lock, thr, cfg, mixer, PULSEAUDIO_CLIENT, PULSEAUDIO_EVENT_LISTENER,
                   PULSEAUDIO_DEFAULT_SINK, PULSEAUDIO_SINKS, listener_poisoned,
                   new_calls, threads_spawned, result_chan, context, subw,
                   main, block, device, tasks, rx_alive, inputs, last>>

\* ------------------------------------------------------------------------
\* The subscription worker
\* ------------------------------------------------------------------------

\* PulseAudioClient::subscribe_callback: the command it sends, or NoRequest
subscribe_callback(facility, index) ==
    CASE facility = "Server" -> <<"GetDefaultDevice">>
      [] facility = "Sink" -> <<"GetSinkInfoByIndex", index>>
      [] OTHER -> NoRequest

\* `mainloop.run()` of the subscription worker delivers the oldest event to
\* subscribe_callback; its send() waits for PULSEAUDIO_CLIENT to be
\* initialized; caught as in ReqIterate
SubRun(caught) ==
    /\ subw = "run"
    /\ events # <<>>
    /\ PULSEAUDIO_CLIENT # "initializing"
    /\ LET request == subscribe_callback(Head(events).facility, Head(events).index)
           sent == IF request = NoRequest THEN "None" ELSE send(request)
       IN  /\ sent = "Ok" => RoomToSend
           /\ events' = Tail(events)
           /\ queue' = IF sent = "Ok" THEN Enqueued(request) ELSE queue
           /\ subw' = IF sent = "Panic" /\ ~caught THEN "dead" ELSE subw
    /\ UNCHANGED <<lock, thr, cfg, mixer, server, PULSEAUDIO_CLIENT, PULSEAUDIO_EVENT_LISTENER,
                   PULSEAUDIO_DEFAULT_SINK, PULSEAUDIO_SINKS, listener_poisoned,
                   new_calls, threads_spawned, result_chan, context, reqw,
                   pending, main, block, device, tasks, rx_alive, inputs,
                   last>>

\* ------------------------------------------------------------------------
\* The environment
\* ------------------------------------------------------------------------

\* the states one change by another program can bring the server to
ServerChanges ==
    { [server EXCEPT !.default_sink_name = n] : n \in SinkNames }
    \cup { [server EXCEPT !.sink[n].volume = v] : n \in SinkNames, v \in ServerVolumes }

\* another program changes the default sink, a volume or a mute flag
EnvChange(t) ==
    /\ inputs < MaxInputs
    /\ t \in ServerChanges
    /\ t # server
    /\ Len(Raise(server, t)) <= MaxEvents
    /\ inputs' = inputs + 1
    /\ server' = t
    /\ events' = Raise(server, t)
    /\ UNCHANGED <<lock, thr, cfg, mixer, PULSEAUDIO_CLIENT, PULSEAUDIO_EVENT_LISTENER,
                   PULSEAUDIO_DEFAULT_SINK, PULSEAUDIO_SINKS, listener_poisoned,
                   new_calls, threads_spawned, result_chan, queue, 
                   context, reqw, subw, pending, main, block, device, tasks, rx_alive,
                   last>>

\* the thread of AlsaSoundDevice::monitor read an event of `alsactl monitor`
\* and sends a Task for block b
AlsaMonitor(b) ==
    /\ block[b].st = "ready"
    /\ device[b].kind = "alsa"
    /\ rx_alive[b]
    /\ tasks[b] < MaxTasks
    /\ tasks' = [tasks EXCEPT ![b] = @ + 1]
    /\ UNCHANGED <<lock, thr, cfg, mixer, server, PULSEAUDIO_CLIENT, PULSEAUDIO_EVENT_LISTENER,
                   PULSEAUDIO_DEFAULT_SINK, PULSEAUDIO_SINKS, listener_poisoned,
                   new_calls, threads_spawned, result_chan, queue, context, reqw, subw,
                   pending, events, main, block, device, rx_alive, inputs, last>>

\* the receiver of block b's tx_update_request is dropped
DropReceiver(b) ==
    /\ rx_alive[b]
    /\ b \in PULSEAUDIO_EVENT_LISTENER
    /\ inputs < MaxInputs
    /\ inputs' = inputs + 1
    /\ rx_alive' = [rx_alive EXCEPT ![b] = FALSE]
    /\ UNCHANGED <<lock, thr, cfg, mixer, server, PULSEAUDIO_CLIENT, PULSEAUDIO_EVENT_LISTENER,
                   PULSEAUDIO_DEFAULT_SINK, PULSEAUDIO_SINKS, listener_poisoned,
                   new_calls, threads_spawned, result_chan, queue, 
                   context, reqw, subw, pending, events, main, block,
                   device, tasks, last>>

\* ------------------------------------------------------------------------
\* Specification
\* ------------------------------------------------------------------------

IterateResults == {"Success", "Quit", "Err"}
ContextStates ==
    {"Unconnected", "Connecting", "Authorizing", "SettingName", "Ready", "Failed",
     "Terminated"}
Buttons == {"Left", "Right", "Up", "Down"}
BlockOrders == UNION { Orders(S) : S \in SUBSET Blocks }

Next ==
    \/ \E b \in Blocks : SoundNew(b)
    \/ ThreadResult
    \/ DeviceNewSecondSend
    \/ Monitor
    \/ \E b \in Blocks : Update(b)
    \/ \E b \in Blocks, button \in Buttons, checked \in BOOLEAN : Click(b, button, checked)
    \/ ClickDisplay
    \/ \E w \in Workers, it \in IterateResults, st \in ContextStates : ConnectionNew(w, it, st)
    \/ \E it \in IterateResults, dispatch \in BOOLEAN, order \in BlockOrders, caught \in BOOLEAN :
          ReqIterate(it, dispatch, order, caught)
    \/ ReqRecv
    \/ \E caught \in BOOLEAN : SubRun(caught)
    \/ \E t \in ServerChanges : EnvChange(t)
    \/ \E b \in Blocks : DropReceiver(b)
    \/ \E b \in Blocks : AlsaMonitor(b)

Spec == Init /\ [][Next]_vars

\* ------------------------------------------------------------------------
\* Specification of the devices driven directly: toggle() calls that are
\* not followed by a display()
\* ------------------------------------------------------------------------

\* number of toggle() calls
MaxToggles == 2

\* SoundDevice::toggle of block b's device, called on its own; `last` keeps
\* the mute flag before the call and the command sent
Toggle(b) ==
    /\ main.pc = "idle"
    /\ \A x \in Blocks : block[x].st # "absent"
    /\ block[b].st = "ready"
    /\ inputs < MaxToggles
    /\ inputs' = inputs + 1
    /\ LET d == device[b]
           o == IF d.kind = "pulse" THEN PulseToggle(d)
                ELSE [request |-> NoRequest] @@ AlsaToggle(d)
           sent == IF o.request = NoRequest \/ o.res # "Ok" THEN "None"
                   ELSE send(o.request)
       IN  /\ sent = "Ok" => RoomToSend
           /\ device' = [device EXCEPT ![b] = o.dev]
           /\ queue' = IF sent = "Ok" THEN Enqueued(o.request) ELSE queue
           /\ mixer' = IF o.res = "Ok" /\ d.kind = "alsa" THEN MixerAfterToggle
                       ELSE mixer
           /\ last' = [op |-> "toggle", b |-> b,
                       res |-> IF sent \in {"Err", "Panic"} THEN sent ELSE o.res,
                       pre |-> d.muted, sent |-> o.request]
           /\ main' = IF sent = "Panic" THEN [pc |-> "panicked", b |-> b] ELSE Idle
    /\ UNCHANGED <<lock, thr, cfg, server, PULSEAUDIO_CLIENT, PULSEAUDIO_EVENT_LISTENER,
                   PULSEAUDIO_DEFAULT_SINK, PULSEAUDIO_SINKS, listener_poisoned,
                   new_calls, threads_spawned, result_chan, context,
                   reqw, subw, pending, events, block, tasks, rx_alive>>

NextToggle ==
    \/ \E b \in Blocks : SoundNew(b)
    \/ ThreadResult
    \/ DeviceNewSecondSend
    \/ Monitor
    \/ \E b \in Blocks : Update(b)
    \/ \E b \in Blocks : Toggle(b)
    \/ \E w \in Workers, it \in IterateResults, st \in ContextStates : ConnectionNew(w, it, st)
    \/ \E it \in IterateResults, dispatch \in BOOLEAN, order \in BlockOrders, caught \in BOOLEAN :
          ReqIterate(it, dispatch, order, caught)
    \/ ReqRecv
    \/ \E caught \in BOOLEAN : SubRun(caught)
    \/ \E b \in Blocks : AlsaMonitor(b)

SpecToggle == Init /\ [][NextToggle]_vars

\* ------------------------------------------------------------------------
\* Specification with fair scheduling and without failures, from the state
\* in which both blocks have been constructed on PulseAudio and the queries
\* of their constructors have been answered: every loop iteration succeeds,
\* no callback panics, no endpoint is dropped, no further command is sent by
\* a device, and the server answers every query (the answer is dispatched
\* by whichever iteration of the request worker's mainloop picks it up)
\* ------------------------------------------------------------------------

\* the device of block b after a get_info that found the server's values
RefreshedDevice(b) ==
    LET n == IF cfg[b].name = None THEN InitServer.default_sink_name ELSE cfg[b].name
    IN  [SetLocalVolume(PulseDevice(cfg[b].name), InitServer.sink[n].volume)
            EXCEPT !.muted = InitServer.sink[n].mute]

\* both blocks are constructed and refreshed, the cache holds both sinks,
\* the request worker waits in recv() and the subscription worker runs
InitFair ==
    /\ cfg \in Configs
    /\ mixer = [volume |-> 40, muted |-> FALSE, runs |-> TRUE, out |-> "full"]
    /\ server = InitServer
    /\ PULSEAUDIO_CLIENT = "ok"
    /\ PULSEAUDIO_EVENT_LISTENER = Blocks
    /\ PULSEAUDIO_DEFAULT_SINK = InitServer.default_sink_name
    /\ PULSEAUDIO_SINKS = [n \in SinkNames |->
                             [volume |-> InitServer.sink[n].volume,
                              mute |-> InitServer.sink[n].mute]]
    /\ listener_poisoned = FALSE
    /\ new_calls = 1
    /\ threads_spawned = 2
    /\ result_chan = <<>>
    /\ queue = <<>>
    /\ context = [w \in Workers |-> "Ready"]
    /\ reqw = [pc |-> "recv", n |-> 0, req |-> NoRequest]
    /\ subw = "run"
    /\ pending = <<>>
    /\ events = <<>>
    /\ main = Idle
    /\ block = [b \in Blocks |->
                  [st |-> "ready", step_width |-> StepWidth(cfg[b].step_width)]]
    /\ device = [b \in Blocks |-> RefreshedDevice(b)]
    /\ tasks = [b \in Blocks |-> 0]
    /\ rx_alive = [b \in Blocks |-> TRUE]
    /\ inputs = 0
    /\ last = [op |-> "get_info", b |-> "b2", res |-> "Ok"]
    /\ LocksFree
    /\ ThreadsIdle

\* one iteration of the request worker's mainloop that succeeds
ReqIterateOk ==
    \E dispatch \in BOOLEAN, order \in BlockOrders : ReqIterate("Success", dispatch, order, TRUE)

\* one such iteration that dispatches the callback of a pending query
ReqDispatch ==
    pending # <<>> /\ \E order \in BlockOrders : ReqIterate("Success", TRUE, order, TRUE)

NextFair ==
    \/ \E b \in Blocks : Update(b)
    \/ ReqIterateOk
    \/ ReqRecv
    \/ SubRun(TRUE)
    \/ \E t \in ServerChanges : EnvChange(t)

\* the scheduler has taken every Task the callbacks sent
TasksTaken == \A b \in Blocks : tasks[b] = 0

\* both workers are scheduled fairly, a reply that iterations could
\* dispatch again and again is dispatched, and the scheduler that runs
\* Sound::update keeps taking the Tasks
SpecFair ==
    /\ InitFair
    /\ [][NextFair]_vars
    /\ WF_vars(ReqIterateOk)
    /\ SF_vars(ReqDispatch)
    /\ WF_vars(ReqRecv)
    /\ WF_vars(SubRun(TRUE))
    /\ []<>TasksTaken

\* ------------------------------------------------------------------------
\* Specification with both blocks following the default sink: no block
\* configures a sink name
\* ------------------------------------------------------------------------

ConfigsUnnamed ==
    { [b \in Blocks |->
         [driver |-> "auto", name |-> None, device |-> None,
          step_width |-> IF b = "b1" THEN 5 ELSE 60]] }

InitUnnamed ==
    /\ cfg \in ConfigsUnnamed
    /\ mixer = [volume |-> 40, muted |-> FALSE, runs |-> TRUE, out |-> "full"]
    /\ InitCommon

SpecUnnamed == InitUnnamed /\ [][Next]_vars

\* ------------------------------------------------------------------------
\* Specification of repeated scrolling, without failures, from the state in
\* which both blocks have been constructed on PulseAudio
\* ------------------------------------------------------------------------

\* number of scroll events
MaxClicks == 2

\* Sound::click for a scroll-up event on block b, up to the return of
\* set_volume (a build without overflow checks)
ScrollUp(b) ==
    /\ main.pc = "idle"
    /\ block[b].st = "ready"
    /\ inputs < MaxClicks
    /\ inputs' = inputs + 1
    /\ LET o == ClickOperation(b, "Up")
           sent == IF o.request = NoRequest \/ o.res # "Ok" THEN "None"
                   ELSE send(o.request)
       IN  /\ sent = "Ok" => RoomToSend
           /\ device' = [device EXCEPT ![b] = o.dev]
           /\ queue' = IF sent = "Ok" THEN Enqueued(o.request) ELSE queue
           /\ last' = [op |-> o.op, b |-> b,
                       res |-> IF sent \in {"Err", "Panic"} THEN sent ELSE o.res]
           /\ main' = IF sent = "Panic" THEN [pc |-> "panicked", b |-> b]
                      ELSE IF sent = "Err" \/ o.res # "Ok" THEN Idle
                      ELSE [pc |-> "display", b |-> b]
    /\ UNCHANGED <<lock, thr, cfg, mixer, server, PULSEAUDIO_CLIENT,
                   PULSEAUDIO_EVENT_LISTENER, PULSEAUDIO_DEFAULT_SINK, PULSEAUDIO_SINKS,
                   listener_poisoned, new_calls, threads_spawned, result_chan, context,
                   reqw, subw, pending, events, block, tasks, rx_alive>>

NextClicks ==
    \/ \E b \in Blocks : ScrollUp(b)
    \/ ClickDisplay
    \/ \E b \in Blocks : Update(b)
    \/ ReqIterateOk
    \/ ReqRecv
    \/ SubRun(TRUE)

SpecClicks == InitFair /\ [][NextClicks]_vars

\* ------------------------------------------------------------------------
\* Specification of the mutexes: every operation of the PulseAudio backend
\* as the sequence of lock(), unlock (drop of the guard), send() and
\* broadcast steps it makes, interleaved over the three threads, from the
\* state in which both blocks have been constructed
\* ------------------------------------------------------------------------

\* number of operations begun
MaxLockOps == 3

Acquire(l) == <<"lock", l>>
Release(l) == <<"unlock", l>>

\* PulseAudioSoundDevice::name: the default-sink mutex is locked for the
\* clone only when the device has no name of its own
NameSteps(named) ==
    IF named THEN <<>> ELSE << Acquire(DEFAULT_SINK_LOCK), Release(DEFAULT_SINK_LOCK) >>

\* send_update_event: the guard lives for the whole loop of sends
BroadcastSteps == << Acquire(LISTENER_LOCK), <<"broadcast">>, Release(LISTENER_LOCK) >>

\* variant of LockSteps: server_info_callback looks the new default sink up
\* in the cache while it holds the default-sink mutex
LockStepsNested(op, named) ==
    CASE op = "get_info" ->
            << Acquire(SINKS_LOCK) >> \o NameSteps(named) \o << Release(SINKS_LOCK) >>
      [] op \in {"set_volume", "toggle"} -> NameSteps(named) \o << <<"send">> >>
      [] op = "new" ->
            IF named THEN << <<"send">> >>
            ELSE << <<"send">> >> \o NameSteps(FALSE) \o << <<"send">> >>
      [] op = "monitor" -> << Acquire(LISTENER_LOCK), Release(LISTENER_LOCK) >>
      [] op = "server_info_callback" ->
            << Acquire(DEFAULT_SINK_LOCK), Acquire(SINKS_LOCK), Release(SINKS_LOCK),
               Release(DEFAULT_SINK_LOCK) >> \o BroadcastSteps
      [] op = "sink_info_callback" ->
            << Acquire(SINKS_LOCK), Release(SINKS_LOCK) >> \o BroadcastSteps
      [] op = "subscribe_callback" -> << <<"send">> >>

\* the steps of operation op; named tells whether the device has a name
LockSteps(op, named) ==
    CASE op = "get_info" ->
            << Acquire(SINKS_LOCK) >> \o NameSteps(named) \o << Release(SINKS_LOCK) >>
      [] op \in {"set_volume", "toggle"} -> NameSteps(named) \o << <<"send">> >>
      [] op = "new" ->
            IF named THEN << <<"send">> >>
            ELSE << <<"send">> >> \o NameSteps(FALSE) \o << <<"send">> >>
      [] op = "monitor" -> << Acquire(LISTENER_LOCK), Release(LISTENER_LOCK) >>
      [] op = "server_info_callback" ->
            << Acquire(DEFAULT_SINK_LOCK), Release(DEFAULT_SINK_LOCK) >> \o BroadcastSteps
      [] op = "sink_info_callback" ->
            << Acquire(SINKS_LOCK), Release(SINKS_LOCK) >> \o BroadcastSteps
      [] op = "subscribe_callback" -> << <<"send">> >>

\* the operations each thread runs
OpsOf(t) ==
    CASE t = "main" -> {"new", "monitor", "get_info", "set_volume", "toggle"}
      [] t = "req" -> {"server_info_callback", "sink_info_callback"}
      [] t = "sub" -> {"subscribe_callback"}

\* a panic unwinds the thread: its guards are dropped
Unwound(t) == [l \in Locks |-> IF lock[l] = t THEN None ELSE lock[l]]

Panicked == [op |-> "panicked", steps |-> <<>>]

\* thread t enters operation op, for the device of block b when t is the
\* calling thread
Begin(t, op, b) ==
    /\ inputs < MaxLockOps
    /\ thr[t].steps = <<>>
    /\ thr[t] # Panicked
    /\ op \in OpsOf(t)
    /\ t # "main" => b = "b1"
    /\ inputs' = inputs + 1
    /\ thr' = [thr EXCEPT ![t] =
                  [op |-> op,
                   steps |-> LockSteps(op, t = "main" /\ cfg[b].name # None)]]
    /\ UNCHANGED <<lock, cfg, mixer, server, PULSEAUDIO_CLIENT, PULSEAUDIO_EVENT_LISTENER,
                   PULSEAUDIO_DEFAULT_SINK, PULSEAUDIO_SINKS, listener_poisoned,
                   new_calls, threads_spawned, result_chan, queue, context,
                   reqw, subw, pending, events, main, block, device, tasks,
                   rx_alive, last>>

\* thread t makes the next step of its operation: lock() waits for the
\* mutex to be free and its unwrap() panics on a poisoned mutex; the
\* broadcast may panic on a disconnected endpoint (panic), which poisons the
\* listener mutex
LockStep(t, panic) ==
    /\ thr[t].steps # <<>>
    /\ LET s == Head(thr[t].steps)
           poisoned == s = Acquire(LISTENER_LOCK) /\ listener_poisoned
       IN  /\ panic => s[1] = "broadcast"
           /\ s[1] = "lock" => lock[s[2]] = None
           /\ lock' = IF poisoned \/ panic THEN Unwound(t)
                      ELSE IF s[1] = "lock" THEN [lock EXCEPT ![s[2]] = t]
                      ELSE IF s[1] = "unlock" THEN [lock EXCEPT ![s[2]] = None]
                      ELSE lock
           /\ thr' = [thr EXCEPT ![t] = IF poisoned \/ panic THEN Panicked
                                        ELSE [op |-> thr[t].op,
                                              steps |-> Tail(thr[t].steps)]]
           /\ listener_poisoned' = (listener_poisoned \/ panic)
    /\ UNCHANGED <<cfg, mixer, server, PULSEAUDIO_CLIENT, PULSEAUDIO_EVENT_LISTENER,
                   PULSEAUDIO_DEFAULT_SINK, PULSEAUDIO_SINKS,
                   new_calls, threads_spawned, result_chan, queue, context,
                   reqw, subw, pending, events, main, block, device, tasks,
                   rx_alive, inputs, last>>

NextLocks ==
    \/ \E t \in LockThreads : \E op \in OpsOf(t), b \in Blocks : Begin(t, op, b)
    \/ \E t \in LockThreads, panic \in BOOLEAN : LockStep(t, panic)

\* every thread is scheduled fairly
SpecLocks ==
    /\ InitFair
    /\ [][NextLocks]_vars
    /\ \A t \in LockThreads : WF_vars(\E panic \in BOOLEAN : LockStep(t, panic))

\* ------------------------------------------------------------------------
\* Specification of the blocks under every driver setting, with the mixer
\* command present or missing
\* ------------------------------------------------------------------------

Drivers == {"auto", "alsa", "pulseaudio"}

ConfigsNew ==
    { [b \in Blocks |->
         [driver |-> IF b = "b1" THEN d1 ELSE d2,
          name |-> IF b = "b1" THEN None ELSE "sink2",
          device |-> IF b = "b1" THEN None ELSE "hw:1",
          step_width |-> IF b = "b1" THEN 5 ELSE 60]] : d1, d2 \in Drivers }

InitNew ==
    /\ InitCommon
    /\ cfg \in ConfigsNew
    /\ mixer \in { [volume |-> 40, muted |-> FALSE, runs |-> r, out |-> "full"] :
                      r \in BOOLEAN }

SpecNew == InitNew /\ [][Next]_vars

\* ------------------------------------------------------------------------
\* Specification of blocks configured with the ALSA driver
\* ------------------------------------------------------------------------

\* the percentages the mixer control can hold
MixerRange == 0..100

\* the mixers a block may meet: amixer missing, or running with one of the
\* output shapes
MixerVolumes == {0, 67, 100}
Mixers ==
    [volume : MixerVolumes, muted : BOOLEAN, runs : {TRUE}, out : OutputKinds]
    \cup [volume : {67}, muted : {FALSE}, runs : {FALSE}, out : {"full"}]

\* another program sets the control, or amixer starts or stops working
MixerChange(m) ==
    /\ inputs < MaxInputs
    /\ m \in Mixers
    /\ m # mixer
    /\ inputs' = inputs + 1
    /\ mixer' = m
    /\ UNCHANGED <<lock, thr, cfg, server, PULSEAUDIO_CLIENT, PULSEAUDIO_EVENT_LISTENER,
                   PULSEAUDIO_DEFAULT_SINK, PULSEAUDIO_SINKS, listener_poisoned,
                   new_calls, threads_spawned, result_chan, queue, context, reqw, subw,
                   pending, events, main, block, device, tasks, rx_alive, last>>

\* configured step widths around the limit
StepWidths == {50, 51, 60}

ConfigsAlsa ==
    { [b \in Blocks |->
         [driver |-> "alsa", name |-> None, device |-> None,
          step_width |-> IF b = "b1" THEN 5 ELSE w]] : w \in StepWidths }

InitAlsa ==
    /\ cfg \in ConfigsAlsa
    /\ mixer \in Mixers
    /\ InitCommon

NextAlsa ==
    \/ \E b \in Blocks : SoundNew(b)
    \/ Monitor
    \/ \E b \in Blocks : AlsaMonitor(b)
    \/ \E b \in Blocks : Update(b)
    \/ \E b \in Blocks, button \in Buttons : Click(b, button, FALSE)
    \/ ClickDisplay
    \/ \E m \in Mixers : MixerChange(m)

SpecAlsa == InitAlsa /\ [][NextAlsa]_vars

\* ------------------------------------------------------------------------
\* Properties
\* ------------------------------------------------------------------------

\* clamp(x + s, lo, hi), computed without leaving the 32-bit range
Clamp(x, s, lo, hi) ==
    IF s > 0 /\ x > hi - s THEN hi
    ELSE IF s < 0 /\ x < lo - s THEN lo
    ELSE x + s

\* the average of a volume vector as a percentage of VOLUME_NORM, rounded to
\* the nearest integer
NormalizedAverage(v) ==
    LET a == avg(v)
    IN  (a \div VOLUME_NORM) * 100
        + (((a % VOLUME_NORM) * 100 + (VOLUME_NORM \div 2)) \div VOLUME_NORM)

\* p is the normalized average of v as the program's single-precision
\* arithmetic can report it: the nearest integer as long as the product by
\* 100 is exact in the f32 mantissa, at most one away from it beyond
ReportsAverage(p, v) ==
    /\ p \in (NormalizedAverage(v) - 1)..(NormalizedAverage(v) + 1)
    /\ avg(v) < (2 ^ (MANTISSA_BITS + 2)) \div 100 => p = NormalizedAverage(v)

\* the step is the request worker's introspection call for a command
IssueStep == reqw.pc # "iterate" /\ reqw'.pc = "iterate"

\* the step is a get_info of block b's device (in update or after a click)
RefreshStep(b) ==
    \/ tasks'[b] < tasks[b]
    \/ main.pc = "display" /\ main.b = b /\ main'.pc = "idle"

\* the step is a mouse event handled by the idle main thread: unlike a change
\* made by the environment it leaves the server and the receivers alone,
\* and it does not change the mixer without moving on or changing a device
HandlerStep ==
    /\ main.pc = "idle"
    /\ inputs' = inputs + 1
    /\ server' = server
    /\ rx_alive' = rx_alive
    /\ thr' = thr
    /\ mixer' # mixer => (main' # main \/ device' # device)

\* the step is a set_volume of block b's device
SetVolumeStep(b) ==
    HandlerStep /\ last'.op = "set_volume" /\ last'.b = b

\* the step dispatches a sink-info callback that carries a named sink item
SinkItemStep ==
    /\ pending # <<>>
    /\ Head(pending)[1] \in {"GetSinkInfoByIndex", "GetSinkInfoByName"}
    /\ pending' = << <<"End">> >> \o Tail(pending)

\* the step dispatches a callback that broadcasts to the listeners
BroadcastStep ==
    \/ SinkItemStep
    \/ pending # <<>> /\ Head(pending)[1] = "GetDefaultDevice" /\ pending' = Tail(pending)

\* C1: the request worker takes commands from the head of the channel while
\* senders append at its tail, and it takes the next one only when the two
\* blocking iterations that follow the previous call are over: one command
\* is in flight at a time.
C1_FifoOneInFlight ==
    [][/\ IssueStep =>
            /\ reqw.pc = "recv"
            /\ queue # <<>>
            /\ reqw'.req = Head(queue)
            /\ queue' = Tail(queue)
            /\ reqw'.n = BLOCKING_ITERATIONS
       /\ ~IssueStep =>
            \/ queue' = queue
            \/ Len(queue') = Len(queue) + 1 /\ SubSeq(queue', 1, Len(queue)) = queue
       /\ reqw.pc = "iterate" =>
            \/ reqw' = reqw
            \/ reqw'.pc = "dead"
            \/ reqw.n > 1 /\ reqw' = [reqw EXCEPT !.n = @ - 1]
            \/ reqw.n = 1 /\ reqw'.pc = "flush"
       /\ reqw'.req # NoRequest => reqw'.pc = "iterate"
      ]_vars

\* a command is in flight, in its second blocking iteration, while a command
\* of the subscription thread and one of the block thread wait
C1_Witness ==
    /\ reqw.pc = "iterate"
    /\ reqw.n = 1
    /\ Len(queue) = 2
    /\ \E i \in 1..2 : queue[i][1] = "GetSinkInfoByIndex"
    /\ \E i \in 1..2 : queue[i][1] = "GetSinkInfoByName"

\* C2: when PulseAudioClient::new has returned, every worker it spawned has
\* reported and the reports have been read; it returned Ok only with both
\* connections Ready and Err only with a failed one; a worker whose
\* connection is not Ready is not in its loop and holds no command or event.
C2_ConstructionProtocol ==
    /\ PULSEAUDIO_CLIENT \in {"ok", "err"} =>
          /\ result_chan = <<>>
          /\ reqw.pc \notin {"unspawned", "connecting"}
          /\ threads_spawned = 2 => subw \notin {"unspawned", "connecting"}
    /\ PULSEAUDIO_CLIENT = "ok" =>
          /\ threads_spawned = 2
          /\ context["req"] = "Ready"
          /\ context["sub"] = "Ready"
    /\ PULSEAUDIO_CLIENT = "err" =>
          \/ context["req"] # "Ready"
          \/ threads_spawned = 2 /\ context["sub"] # "Ready"
    /\ context["req"] # "Ready" =>
          /\ reqw.pc \in {"unspawned", "connecting", "dead"}
          /\ reqw.req = NoRequest
          /\ pending = <<>>
    /\ context["sub"] # "Ready" =>
          /\ subw \in {"unspawned", "connecting", "dead"}
          /\ events = <<>>

\* new returned Err because the subscription worker's connection failed
\* after the request worker's had succeeded
C2_Witness ==
    /\ PULSEAUDIO_CLIENT = "err"
    /\ threads_spawned = 2
    /\ subw = "dead"
    /\ context["sub"] # "Ready"
    /\ context["req"] = "Ready"
    /\ reqw.pc # "dead"

\* C3: PulseAudioClient::new is entered at most once and at most two worker
\* threads are spawned; after a failed construction no later send() enqueues
\* a command, starts a construction or yields a PulseAudio device.
C3_Singleton ==
    /\ new_calls <= 1
    /\ threads_spawned <= 2
    /\ PULSEAUDIO_CLIENT = "uninit" <=> new_calls = 0
    /\ PULSEAUDIO_CLIENT = "err" =>
          /\ queue = <<>>
          /\ \A b \in Blocks : device[b].kind # "pulse"

\* both blocks were constructed after the one construction had failed: the
\* second block's send() met the memoized failure
C3_Witness ==
    /\ PULSEAUDIO_CLIENT = "err"
    /\ new_calls = 1
    /\ \A b \in Blocks : block[b].st = "ready" /\ device[b].kind = "alsa"

\* C4: with two or more listeners registered, a sink-info callback that
\* carries a named sink item puts exactly one Task on every listener's
\* endpoint.
C4_OneTaskPerListener ==
    [][SinkItemStep /\ Cardinality(PULSEAUDIO_EVENT_LISTENER) >= 2 =>
           \A b \in PULSEAUDIO_EVENT_LISTENER : tasks'[b] = tasks[b] + 1]_vars

\* C5: a broadcast that meets a disconnected endpoint still notifies the
\* other listeners, leaves the worker in its loop and leaves the registry
\* usable.
C5_BroadcastSurvivesDisconnect ==
    [][BroadcastStep /\ (\E b \in PULSEAUDIO_EVENT_LISTENER : ~rx_alive[b]) =>
           /\ \A b \in PULSEAUDIO_EVENT_LISTENER :
                 rx_alive[b] => tasks'[b] = tasks[b] + 1
           /\ reqw'.pc # "dead"
           /\ ~listener_poisoned']_vars

\* C6: get_info of a device without a configured name, with the default sink
\* N in the cache with volume V and mute M, sets muted to M and volume_avg
\* to the normalized average of V: 50 and unmuted for 50% on both channels.
C6_RefreshFromCache ==
    [][\A b \in Blocks :
          /\ RefreshStep(b)
          /\ device[b].kind = "pulse"
          /\ device[b].name = None
          /\ PULSEAUDIO_DEFAULT_SINK \in DOMAIN PULSEAUDIO_SINKS
          => LET V == PULSEAUDIO_SINKS[PULSEAUDIO_DEFAULT_SINK].volume
                 M == PULSEAUDIO_SINKS[PULSEAUDIO_DEFAULT_SINK].mute
             IN  /\ device'[b].muted = M
                 /\ device'[b].volume = V
                 /\ ReportsAverage(device'[b].volume_avg, V)
                 /\ V = <<32768, 32768>> /\ ~M =>
                       device'[b].volume_avg = 50 /\ ~device'[b].muted
      ]_vars

\* the block without a configured name has refreshed from the cache entry of
\* the default sink "sink1", 50% and unmuted
C6_Witness ==
    /\ PULSEAUDIO_DEFAULT_SINK = "sink1"
    /\ "sink1" \in DOMAIN PULSEAUDIO_SINKS
    /\ PULSEAUDIO_SINKS["sink1"] = [volume |-> <<32768, 32768>>, mute |-> FALSE]
    /\ last = [op |-> "get_info", b |-> "b1", res |-> "Ok"]
    /\ device["b1"].kind = "pulse"
    /\ device["b1"].name = None
    /\ device["b1"].volume = <<32768, 32768>>
    /\ device["b1"].volume_avg = 50
    /\ ~device["b1"].muted

\* C7: get_info of a PulseAudio device whose resolved name has no cache
\* entry returns Ok and leaves the device as it was.
C7_CacheMissFrame ==
    [][\A b \in Blocks :
          /\ RefreshStep(b)
          /\ device[b].kind = "pulse"
          /\ name(device[b]) \notin DOMAIN PULSEAUDIO_SINKS
          => /\ device'[b] = device[b]
             /\ last' = [op |-> "get_info", b |-> b, res |-> "Ok"]
      ]_vars

\* a device that was muted locally has gone through a get_info that missed
\* the cache
C7_Witness ==
    /\ last.op = "get_info"
    /\ last.res = "Ok"
    /\ last.b \in Blocks
    /\ device[last.b].kind = "pulse"
    /\ name(device[last.b]) \notin DOMAIN PULSEAUDIO_SINKS
    /\ device[last.b].muted
    /\ device[last.b].volume = NoVolume

\* C8: set_volume of a PulseAudio device that holds no volume vector fails
\* with "volume unknown", enqueues nothing and leaves the device as it was.
C8_VolumeUnknown ==
    [][\A b \in Blocks :
          /\ SetVolumeStep(b)
          /\ device[b].kind = "pulse"
          /\ device[b].volume = NoVolume
          => /\ last'.res = "Err: volume unknown"
             /\ queue' = queue
             /\ device' = device
      ]_vars

\* a set_volume has failed on a device without a volume vector
C8_Witness ==
    /\ last.op = "set_volume"
    /\ last.res = "Err: volume unknown"
    /\ last.b \in Blocks
    /\ device[last.b].kind = "pulse"
    /\ device[last.b].volume = NoVolume
    /\ inputs = 1

\* C9: a set_volume that returns Ok on a PulseAudio device holding V sets
\* every channel to clamp(c + step in native units, 0, VOLUME_MAX), sets
\* volume_avg to the normalized average of the new vector and enqueues one
\* SetSinkVolumeByName with the resolved name and the new vector.
C9_StepClamped ==
    [][\A b \in Blocks :
          /\ SetVolumeStep(b)
          /\ device[b].kind = "pulse"
          /\ device[b].volume # NoVolume
          /\ last'.res = "Ok"
          => \E s \in {block[b].step_width, 0 - block[b].step_width} :
                LET V == device[b].volume
                    W == [c \in 1..Len(V) |->
                            Clamp(V[c], StepToNative(s), 0, VOLUME_MAX)]
                IN  /\ device'[b].volume = W
                    /\ ReportsAverage(device'[b].volume_avg, W)
                    /\ queue' = Append(queue,
                                       <<"SetSinkVolumeByName", name(device[b]), W>>)
      ]_vars

\* C10: a set_volume that returns Ok on an ALSA device holding v in 0..100
\* leaves the device's volume, and the mixer's, at clamp(v + step, 0, 100).
C10_AlsaStepClamped ==
    [][\A b \in Blocks :
          /\ SetVolumeStep(b)
          /\ device[b].kind = "alsa"
          /\ device[b].volume \in MixerRange
          /\ last'.res = "Ok"
          => \E s \in {block[b].step_width, 0 - block[b].step_width} :
                /\ device'[b].volume = Clamp(device[b].volume, s, 0, 100)
                /\ mixer'.volume = Clamp(device[b].volume, s, 0, 100)
      ]_vars

\* C15: a get_info of an ALSA device that reads the usual amixer line sets
\* volume to the bracketed percentage and muted to whether the switch token
\* is "off" (67 and on: 67, unmuted; 0 and off: 0, muted); a line without
\* a switch token gives muted = FALSE.
C15_AmixerParse ==
    [][\A b \in Blocks :
          /\ RefreshStep(b)
          /\ device[b].kind = "alsa"
          /\ mixer.runs
          /\ mixer.out \in {"full", "noswitch"}
          => /\ last' = [op |-> "get_info", b |-> b, res |-> "Ok"]
             /\ device'[b].volume = mixer.volume
             /\ device'[b].muted = (mixer.out = "full" /\ mixer.muted)
      ]_vars

\* a device constructed muted has refreshed from a line without a switch
\* token and is unmuted
C15_Witness ==
    /\ last.op = "get_info"
    /\ last.res = "Ok"
    /\ last.b \in Blocks
    /\ device[last.b].kind = "alsa"
    /\ mixer.out = "noswitch"
    /\ mixer.muted
    /\ mixer.volume = 67
    /\ device[last.b].volume = 67
    /\ ~device[last.b].muted

C17_StepWidth ==
    [][\A b \in Blocks :
          /\ block'[b].st # "absent" =>
                /\ block'[b].step_width = Min2(cfg[b].step_width, 50)
                /\ block'[b].step_width <= 50
          /\ block[b].st # "absent" =>
                /\ ButtonStep(b, "Up") = Min2(cfg[b].step_width, 50)
                /\ ButtonStep(b, "Down") = 0 - Min2(cfg[b].step_width, 50)
          /\ (SetVolumeStep(b) /\ device[b].kind = "alsa" /\ last'.res = "Ok") =>
                \E s \in {Min2(cfg[b].step_width, 50), 0 - Min2(cfg[b].step_width, 50)} :
                    device'[b].volume = Max2(0, device[b].volume + s)
      ]_vars

\* the block configured with width 60 has stepped an ALSA device from 0 to 50
C17_Witness ==
    /\ cfg["b2"].step_width = 60
    /\ block["b2"].step_width = 50
    /\ last = [op |-> "set_volume", b |-> "b2", res |-> "Ok"]
    /\ device["b2"].kind = "alsa"
    /\ device["b2"].volume = 50

\* worker w is inside PulseAudioConnection::new
Constructing(w) == IF w = "req" THEN reqw.pc = "connecting" ELSE subw = "connecting"

\* worker w holds a connection that PulseAudioConnection::new returned
HasConnection(w) ==
    IF w = "req" THEN reqw.pc \in {"flush", "recv", "iterate"} ELSE subw = "run"

\* C14: PulseAudioConnection::new returns a connection only with the context
\* Ready, returns an error on Failed, Terminated or a failed iteration, and
\* goes on iterating in every other state; a worker that holds a connection
\* got it from a construction that saw Ready.
C14_ConnectionNew ==
    [][\A w \in Workers :
          /\ Constructing(w) =>
                /\ context[w] \notin {"Ready", "Failed", "Terminated"}
                /\ HasConnection(w)' =>
                      /\ context'[w] = "Ready"
                      /\ result_chan' = Append(result_chan, "Ok")
                /\ (~HasConnection(w)' /\ ~Constructing(w)') =>
                      /\ context'[w] \in {"Failed", "Terminated"}
                            \/ context'[w] = context[w]
                      /\ result_chan' = Append(result_chan, "Err")
                /\ Constructing(w)' =>
                      /\ context'[w] \notin {"Ready", "Failed", "Terminated"}
                      /\ result_chan' = result_chan
                /\ context'[w] \in {"Ready", "Failed", "Terminated"} =>
                      ~Constructing(w)'
          /\ HasConnection(w)' => /\ context'[w] = "Ready"
                                  /\ Constructing(w) \/ HasConnection(w)
      ]_vars

\* both workers hold a connection whose context is Ready, and the second
\* construction has just reported Ok
C14_Witness ==
    /\ HasConnection("req")
    /\ HasConnection("sub")
    /\ context["req"] = "Ready"
    /\ context["sub"] = "Ready"
    /\ result_chan = <<"Ok">>

\* the step delivers the oldest subscription event to subscribe_callback
SubscribeStep == events # <<>> /\ events' = Tail(events)

\* C19: subscribe_callback enqueues exactly one GetDefaultDevice for a
\* Server event, exactly one GetSinkInfoByIndex(index) for a Sink event and
\* nothing for another facility, and it changes neither the default sink,
\* the sink cache, the listener registry nor the listeners' endpoints.
C19_SubscribeCallback ==
    [][SubscribeStep =>
          LET e == Head(events)
          IN  /\ e.facility = "Server" =>
                    queue' = Append(queue, <<"GetDefaultDevice">>)
              /\ e.facility = "Sink" =>
                    queue' = Append(queue, <<"GetSinkInfoByIndex", e.index>>)
              /\ e.facility \notin {"Server", "Sink"} => queue' = queue
              /\ UNCHANGED <<PULSEAUDIO_DEFAULT_SINK, PULSEAUDIO_SINKS,
                             PULSEAUDIO_EVENT_LISTENER, tasks>>
      ]_vars

\* the step dispatches the End of a sink list
EndStep == pending # <<>> /\ Head(pending) = <<"End">> /\ pending' = Tail(pending)

\* C20: PULSEAUDIO_SINKS changes only in a sink-info callback that carries
\* a named item, which inserts or overwrites that name's entry before it
\* broadcasts (the entry is written even when the broadcast fails); End,
\* Error and nameless items change nothing and broadcast nothing; no entry
\* is ever removed.
C20_CacheWrittenByCallback ==
    [][/\ PULSEAUDIO_SINKS' # PULSEAUDIO_SINKS =>
             SinkItemStep /\ reqw.pc \in {"flush", "iterate"}
       /\ SinkItemStep =>
             LET item == Reply(Head(pending)).result
             IN  /\ item.kind = "Item"
                 /\ PULSEAUDIO_SINKS' =
                       [n \in DOMAIN PULSEAUDIO_SINKS \cup {item.name} |->
                           IF n = item.name
                           THEN [volume |-> server.sink[n].volume,
                                 mute |-> server.sink[n].mute]
                           ELSE PULSEAUDIO_SINKS[n]]
       /\ DOMAIN PULSEAUDIO_SINKS \subseteq DOMAIN PULSEAUDIO_SINKS'
       /\ EndStep => UNCHANGED <<PULSEAUDIO_SINKS, tasks, listener_poisoned>>
       /\ \A order \in Orders(PULSEAUDIO_EVENT_LISTENER) :
             /\ sink_info_callback([kind |-> "Error"], order) = NoEffect
             /\ sink_info_callback([kind |-> "Item", name |-> None,
                                    volume |-> <<0, 0>>, mute |-> FALSE],
                                   order) = NoEffect
      ]_vars

\* a sink item has just been dispatched (its End is pending): its entry is
\* in the cache although the broadcast that followed the insert failed
C20_Witness ==
    /\ pending # <<>>
    /\ Head(pending) = <<"End">>
    /\ listener_poisoned
    /\ "sink2" \in DOMAIN PULSEAUDIO_SINKS
    /\ PULSEAUDIO_SINKS["sink2"].volume = server.sink["sink2"].volume
    /\ \A b \in Blocks : tasks[b] = 0

\* the step is a toggle() of block b's device that returns Ok
ToggleOkStep(b) ==
    HandlerStep /\ last'.op = "toggle" /\ last'.b = b /\ last'.res = "Ok"

\* C11: a successful toggle() negates the device's mute flag, and a second
\* successful toggle() on the same device with no get_info in between
\* restores the flag the device had before the first; on PulseAudio the
\* first appends SetSinkMuteByName with the negated flag to the request
\* channel and the second appends it with the original flag.
C11_ToggleTwice ==
    [][\A b \in Blocks :
          ToggleOkStep(b) =>
             /\ device'[b].muted = ~device[b].muted
             /\ device[b].kind = "pulse" =>
                   /\ last'.sent = <<"SetSinkMuteByName", name(device[b]), ~last'.pre>>
                   /\ queue' = Append(queue, last'.sent)
             /\ device[b].kind = "alsa" =>
                   /\ queue' = queue
                   /\ mixer'.muted = ~mixer.muted
             /\ (last.op = "toggle" /\ last.b = b /\ last.res = "Ok") =>
                   /\ device'[b].muted = last.pre
                   /\ device[b].kind = "pulse" =>
                         /\ last.sent[3] = ~last.pre
                         /\ last'.sent[3] = last.pre
      ]_vars

\* the PulseAudio device of b1 has been toggled twice in a row and both
\* commands wait in the channel, the negated flag first
C11_Witness ==
    /\ inputs = 2
    /\ last.op = "toggle"
    /\ last.b = "b1"
    /\ last.res = "Ok"
    /\ last.pre
    /\ device["b1"].kind = "pulse"
    /\ ~device["b1"].muted
    /\ queue = << <<"SetSinkMuteByName", name(device["b1"]), TRUE>>,
                  <<"SetSinkMuteByName", name(device["b1"]), FALSE>> >>

\* the ALSA device of b1 has been toggled twice in a row and is unmuted
\* again, as is the mixer
C11_WitnessAlsa ==
    /\ inputs = 2
    /\ last.op = "toggle"
    /\ last.b = "b1"
    /\ last.res = "Ok"
    /\ last.pre
    /\ device["b1"].kind = "alsa"
    /\ ~device["b1"].muted
    /\ ~mixer.muted

\* block b's constructor has run PulseAudioSoundDevice::new / with_name and
\* it returned Err: the memoized client construction failed
PulseFailed(b) == TriesPulseAudio(cfg[b].driver) /\ PULSEAUDIO_CLIENT = "err"

\* the step is a device operation of block b made by Sound::update or
\* Sound::click
DeviceCallStep(b) ==
    \/ RefreshStep(b)
    \/ HandlerStep /\ last'.b = b /\ last'.op \in {"set_volume", "toggle"}

\* C12: a block gets a PulseAudio device only if its driver is not alsa and
\* the PulseAudio constructor succeeded; it gets an ALSA device, built once
\* from the configured or default control and card names, exactly when the
\* driver is alsa or the PulseAudio constructor failed; construction fails
\* when that ALSA constructor fails; the device's kind never changes and
\* every later get_info, set_volume, toggle and monitor acts on that kind.
C12_BackendSelection ==
    [][\A b \in Blocks :
          /\ device'[b].kind = "pulse" =>
                /\ cfg[b].driver # "alsa"
                /\ PULSEAUDIO_CLIENT' = "ok"
          /\ device'[b].kind = "alsa" =>
                /\ cfg[b].driver = "alsa" \/ PulseFailed(b)'
                /\ device'[b].name = IF cfg[b].name = None THEN "Master" ELSE cfg[b].name
                /\ device'[b].device =
                      IF cfg[b].device = None THEN "default" ELSE cfg[b].device
          /\ (main.pc \in {"thread_result_req", "thread_result_sub"} /\ main.b = b
                 /\ PULSEAUDIO_CLIENT' = "err") =>
                IF mixer.runs
                THEN device'[b].kind = "alsa" /\ block'[b].st = "constructing"
                ELSE device'[b].kind = "none" /\ block'[b].st = "failed"
          /\ (block[b].st = "absent" /\ block'[b].st # "absent"
                 /\ (cfg[b].driver = "alsa" \/ PULSEAUDIO_CLIENT = "err")) =>
                /\ UNCHANGED <<PULSEAUDIO_CLIENT, new_calls, threads_spawned, queue>>
                /\ IF mixer.runs
                   THEN device'[b].kind = "alsa" /\ block'[b].st = "constructing"
                   ELSE device'[b].kind = "none" /\ block'[b].st = "failed"
          /\ block'[b].st = "failed" => ~mixer.runs /\ device'[b].kind = "none"
          /\ block[b].st = "failed" => block'[b].st = "failed"
          /\ device[b].kind # "none" => device'[b].kind = device[b].kind
          /\ block'[b].st = "ready" => device'[b].kind # "none"
          /\ DeviceCallStep(b) =>
                /\ device[b].kind = "alsa" =>
                      UNCHANGED <<queue, PULSEAUDIO_EVENT_LISTENER>>
                /\ device[b].kind = "pulse" => mixer' = mixer
          /\ (main.pc = "monitor" /\ main.b = b /\ main'.pc = "idle") =>
                (b \in PULSEAUDIO_EVENT_LISTENER') = (device[b].kind = "pulse")
      ]_vars

\* b1, configured with driver pulseaudio, fell back to an ALSA device on
\* Master/default after the client construction failed, and b2, configured
\* with driver alsa, has an ALSA device on its configured names; both are
\* ready and b1 has been refreshed
C12_Witness ==
    /\ cfg["b1"].driver = "pulseaudio"
    /\ cfg["b2"].driver = "alsa"
    /\ PULSEAUDIO_CLIENT = "err"
    /\ new_calls = 1
    /\ block["b1"].st = "ready"
    /\ block["b2"].st = "ready"
    /\ device["b1"].kind = "alsa"
    /\ device["b1"].name = "Master"
    /\ device["b1"].device = "default"
    /\ device["b2"].name = "sink2"
    /\ device["b2"].device = "hw:1"
    /\ last = [op |-> "get_info", b |-> "b1", res |-> "Ok"]

\* b1, configured with driver auto, has a PulseAudio device and b2,
\* configured with driver alsa, failed to construct
C12_WitnessFailed ==
    /\ cfg["b1"].driver = "auto"
    /\ device["b1"].kind = "pulse"
    /\ block["b1"].st = "ready"
    /\ block["b2"].st = "failed"

\* a Sink event for index i waits to be delivered to subscribe_callback
SinkEvent(i) ==
    \E k \in 1..Len(events) : events[k] = [facility |-> "Sink", index |-> i]

\* the cache entry of the sink with index i holds what the server holds
CacheCurrent(i) ==
    /\ SinkAt(i) \in DOMAIN PULSEAUDIO_SINKS
    /\ PULSEAUDIO_SINKS[SinkAt(i)] =
          [volume |-> server.sink[SinkAt(i)].volume, mute |-> server.sink[SinkAt(i)].mute]

\* C18: with fair workers and no failure, a Sink event for index i leads to
\* the cache entry of that sink holding the server's current volume and
\* mute, without a further command being sent.
C18_EventReachesCache ==
    \A i \in { SinkIndex(n) : n \in SinkNames } : SinkEvent(i) ~> CacheCurrent(i)

\* thread t is in lock() of mutex l
WaitsFor(t, l) == thr[t].steps # <<>> /\ Head(thr[t].steps) = Acquire(l)

\* C13: on the PulseAudio backend every lock() of the three mutexes returns
\* and every operation of the calling thread and of the workers' callbacks
\* ends, under every interleaving: no deadlock, also not at the nested
\* lock of the default sink inside get_info.
C13_NoDeadlock ==
    /\ \A t \in LockThreads, l \in Locks : WaitsFor(t, l) ~> ~WaitsFor(t, l)
    /\ \A t \in LockThreads : (thr[t].steps # <<>>) ~> (thr[t].steps = <<>>)

\* get_info holds the cache mutex and waits for the default-sink mutex,
\* which server_info_callback holds
C13_Witness ==
    /\ thr["main"].op = "get_info"
    /\ lock[SINKS_LOCK] = "main"
    /\ WaitsFor("main", DEFAULT_SINK_LOCK)
    /\ thr["req"].op = "server_info_callback"
    /\ lock[DEFAULT_SINK_LOCK] = "req"

\* the sink name block b's device resolves to: the configured name, else the
\* shared default sink name
ResolvedName(b) ==
    IF cfg[b].name # None THEN cfg[b].name ELSE PULSEAUDIO_DEFAULT_SINK

\* the step is a set_volume or toggle of block b's device
OwnOperationStep(b) ==
    HandlerStep /\ last'.b = b /\ last'.op \in {"set_volume", "toggle"}

\* C21: with two PulseAudio devices, set_volume or toggle of one changes
\* neither the other device nor the sink cache; a device changes only in its
\* own set_volume or toggle or in its own get_info that finds a cache entry
\* for its resolved name; such a get_info takes volume and mute from that
\* entry, so that two devices that resolve to the same sink and refreshed
\* from the same entry report the same percentage and mute flag.
C21_DevicesIndependent ==
    [][\A b \in Blocks : device[b].kind = "pulse" =>
          /\ OwnOperationStep(b) =>
                /\ PULSEAUDIO_SINKS' = PULSEAUDIO_SINKS
                /\ PULSEAUDIO_DEFAULT_SINK' = PULSEAUDIO_DEFAULT_SINK
                /\ \A c \in Blocks \ {b} : device'[c] = device[c]
          /\ device'[b] # device[b] =>
                \/ OwnOperationStep(b)
                \/ RefreshStep(b) /\ ResolvedName(b) \in DOMAIN PULSEAUDIO_SINKS
          /\ RefreshStep(b) /\ ResolvedName(b) \in DOMAIN PULSEAUDIO_SINKS =>
                LET e == PULSEAUDIO_SINKS[ResolvedName(b)]
                IN  /\ device'[b].volume = e.volume
                    /\ device'[b].muted = e.mute
                    /\ \A c \in Blocks \ {b} :
                          /\ device[c].kind = "pulse"
                          /\ ResolvedName(c) = ResolvedName(b)
                          /\ device[c].volume = e.volume
                          /\ device[c].muted = e.mute
                          => /\ device'[b].volume_avg = device[c].volume_avg
                             /\ device'[b].muted = device[c].muted
      ]_vars

\* the default sink has become "sink2", the sink block b2 names, and both
\* blocks have refreshed from its cache entry: they report the same values
C21_Witness ==
    /\ PULSEAUDIO_DEFAULT_SINK = "sink2"
    /\ "sink2" \in DOMAIN PULSEAUDIO_SINKS
    /\ \A b \in Blocks :
          /\ device[b].kind = "pulse"
          /\ ResolvedName(b) = "sink2"
          /\ device[b].volume = PULSEAUDIO_SINKS["sink2"].volume
          /\ device[b].muted = PULSEAUDIO_SINKS["sink2"].mute
    /\ device["b1"].volume_avg = device["b2"].volume_avg
    /\ last = [op |-> "get_info", b |-> "b1", res |-> "Ok"]
    /\ tasks = [b \in Blocks |-> 0]

\* the request channel has drained, every callback has run, no event waits
\* for delivery and both workers are alive
Settled ==
    /\ PULSEAUDIO_CLIENT = "ok"
    /\ queue = <<>>
    /\ pending = <<>>
    /\ events = <<>>
    /\ reqw.pc = "recv"
    /\ subw = "run"

\* the server's default sink is no longer the initial one, and the callback
\* of the GetDefaultDevice that followed the Server event has stored it
DefaultSinkChanged ==
    /\ server.default_sink_name # InitServer.default_sink_name
    /\ PULSEAUDIO_DEFAULT_SINK = server.default_sink_name

\* C22: once the default sink has changed from A to B, the Server event has
\* been delivered, the request channel has drained and every callback has
\* run, get_info of a device without a configured name sets the device to
\* the volume and mute the server holds for B, also when B was never
\* queried before.
C22_DefaultSinkFollowed ==
    [][\A b \in Blocks :
          /\ Settled
          /\ DefaultSinkChanged
          /\ device[b].kind = "pulse"
          /\ cfg[b].name = None
          /\ RefreshStep(b)
          => /\ device'[b].volume = server.sink[server.default_sink_name].volume
             /\ device'[b].muted = server.sink[server.default_sink_name].mute
      ]_vars

\* the command at the tail of the request channel sets the volume of the
\* sink block b's device resolves to: b's previous click sent it, and the
\* request worker has not taken it, so no callback has run since
LastCommandOf(b) ==
    /\ queue # <<>>
    /\ queue[Len(queue)][1] = "SetSinkVolumeByName"
    /\ queue[Len(queue)][2] = ResolvedName(b)

\* C23: a scroll-up click on a PulseAudio device that follows another one,
\* with no callback having run in between, sends SetSinkVolumeByName with
\* the volumes of the previous command raised by one more step (clamped to
\* [0, VOLUME_MAX]): the commands carry v+s, v+2s, ...
C23_ClicksAccumulate ==
    [][\A b \in Blocks :
          /\ SetVolumeStep(b)
          /\ device[b].kind = "pulse"
          /\ LastCommandOf(b)
          /\ last'.res = "Ok"
          => LET s == StepToNative(block[b].step_width)
                 previous == queue[Len(queue)][3]
             IN  /\ Len(queue') = Len(queue) + 1
                 /\ queue'[Len(queue')][1] = "SetSinkVolumeByName"
                 /\ \A c \in 1..Len(previous) :
                       queue'[Len(queue')][3][c] = Clamp(previous[c], s, 0, VOLUME_MAX)
      ]_vars

\* no endpoint has been dropped and no callback has panicked
NoFailure ==
    /\ \A b \in Blocks : rx_alive[b]
    /\ ~listener_poisoned

\* block b is constructed on PulseAudio and registered, and its device is
\* still as its constructor made it: no volume, 0 %, unmuted
ShowsInitialState(b) ==
    /\ block[b].st = "ready"
    /\ device[b].kind = "pulse"
    /\ b \in PULSEAUDIO_EVENT_LISTENER
    /\ device[b] = PulseDevice(cfg[b].name)

\* C24: a block constructed by Sound::new on PulseAudio is notified at or
\* after the write of the cache entry its constructor's queries produce: once
\* every command has been answered, a block whose sink has a cache entry
\* does not show its initial state without a Task waiting for it.
C24_NotifiedAfterConstruction ==
    \A b \in Blocks :
        /\ ShowsInitialState(b)
        /\ Settled
        /\ NoFailure
        /\ ResolvedName(b) \in DOMAIN PULSEAUDIO_SINKS
        => tasks[b] > 0

====
